---- MODULE Spec2Model ----
(***************************************************************************)
(* State-machine model of the rate-limited, token-cached, retrying access  *)
(* layer of subtrends (src/src/services/rate_limiter.py,                   *)
(* src/src/clients/token_cache.py, src/src/clients/reddit.py).             *)
(*                                                                         *)
(* The tasks are asyncio coroutines on one event loop: a step of the model *)
(* is the code a coroutine runs between two suspension points.             *)
(*                                                                         *)
(*   SpecRL   RateLimiter.acquire / _wait_for_rate_limit                   *)
(*   SpecReq  RedditClient._ensure_token / _request / fetch_top_posts /    *)
(*            fetch_post_comments over the TokenCache                      *)
(*   SpecTC   TokenCache.get / set / clear, step by step                   *)
(*   SpecFG   NewsFetcher.fetch_group (src/src/services/news_fetcher.py)   *)
(*   SpecSum  Summarizer.summarize_and_translate over                      *)
(*            AnthropicClient.generate (src/src/services/summarizer.py,    *)
(*            src/src/clients/anthropic_client.py)                         *)
(*   SpecPrompt  Summarizer._build_summary_prompt                          *)
(*   SpecPWC  RedditClient.fetch_posts_with_comments                       *)
(***************************************************************************)
EXTENDS Integers, Sequences, FiniteSets, TLC

VARIABLES
    \* ---- RateLimiter (rate_limiter.py) ----
    now,            \* time.monotonic(), in seconds
    permits,        \* free permits of self.semaphore
    lockHolder,     \* task inside "async with self._lock", or NoTask
    request_times,  \* self.request_times, oldest first
    rpc,            \* per task: position in acquire()
    wakeAt,         \* per task: end of its asyncio.sleep(wait_time), 0 when not asleep
    calls,          \* acquire() calls made so far
    recent,         \* history: the last WindowCapacity + 1 timestamps recorded
    earliest,       \* history, per task: call time + 60 - (call time - oldest) when the
                    \* window was full at the call, else 0
    raisedOnce      \* history: some guarded body has raised

rlVars == <<now, permits, lockHolder, request_times, rpc, wakeAt, calls, recent,
            earliest, raisedOnce>>

VARIABLES
    \* ---- RedditClient (reddit.py) and its TokenCache (token_cache.py) ----
    wall,           \* time.time(), in seconds
    cache,          \* the token cache file: present, access_token, expires_at
    access_token,   \* self._access_token, 0 for None
    tokenLock,      \* task inside "async with self._token_lock", or NoTask
    issued,         \* tokens the auth endpoint has issued; the next one is issued + 1
    cycleExch,      \* history: token exchanges sent since the cache last lost its
                    \* valid token or an exchange last failed
    req             \* per task: the locals of its fetch_* / _request call

rqVars == <<wall, cache, access_token, tokenLock, issued, cycleExch, req>>

VARIABLES
    \* ---- NewsFetcher.fetch_group (news_fetcher.py) ----
    fgpc,           \* position of fetch_group: "idle", "gather", "done"
    group_name,     \* the argument of fetch_group, a string as a sequence of characters
    results,        \* per member source, in member order: its _fetch_subreddit task
    fgout,          \* what fetch_group returned or raised
    \* ---- Summarizer (summarizer.py) over AnthropicClient (anthropic_client.py) ----
    sm,             \* the locals of summarize_and_translate and of the generate under way
    genCalls,       \* history: the generate() invocations, in order
    pb,             \* a call of _build_summary_prompt: its arguments, content and result
    pw              \* a call of fetch_posts_with_comments: its posts and comment tasks

svcVars == <<fgpc, group_name, results, fgout, sm, genCalls, pb, pw>>

VARIABLES
    \* ---- TokenCache (token_cache.py), step by step ----
    clock,          \* time.time(), in seconds
    file,           \* the cache file: exists, and the content of its inode
    cacheLock,      \* task inside "async with self._lock", or NoTask
    tc,             \* per task: the locals of its get / set / clear call and its result
    tcOps,          \* calls made so far
    lastSet,        \* history: the most recent set that has returned
    nclears,        \* history: clear() calls so far
    written,        \* history: the contents set() calls have computed
    lastMut         \* history: which call last touched the file: "set" or "clear"

tcVars == <<clock, file, cacheLock, tc, tcOps, lastSet, nclears, written, lastMut>>

vars == <<rlVars, rqVars, svcVars, tcVars>>

NoTask == "none"

\* ------------------------------------------------------------------------
\* Bounds of the model
\* ------------------------------------------------------------------------
RLTasks == {"t1", "t2", "t3", "t4"}   \* concurrent callers of acquire()
MaxConcurrent == 2              \* max_concurrent the limiter is built with
WindowCapacity == 2             \* requests_per_minute the limiter is built with
MaxCalls == 5                   \* acquire() calls in one run
TickStep == 30                  \* granularity of the clock, seconds
MaxTime == 120                  \* the clock stops here

Clients == {"a", "b"}           \* concurrent callers of fetch_*
OpsOf(t) == IF t = "a" THEN {"posts"} ELSE {"comments"}   \* the fetch each one runs
WallStep == 300                 \* granularity of the wall clock, seconds
MaxWall == 300                  \* the wall clock stops here
CommentLimit == 2               \* limit passed to fetch_post_comments

\* ------------------------------------------------------------------------
\* TokenCache and the values exchanged with the remote services
\* ------------------------------------------------------------------------
TOKEN_EXPIRY_BUFFER == 300
DEFAULT_TOKEN_EXPIRY == 86400
MAX_RETRIES == 3
DEFAULT_RETRY_AFTER == 5
DAY == 86400
Absent == -1

\* The cache file does not exist.
NoFile == [present |-> FALSE, access_token |-> 0, expires_at |-> 0]

is_valid_Inclusive(tok, t) == t <= tok.expires_at - TOKEN_EXPIRY_BUFFER

\* CachedToken.is_valid at time t.
is_valid(tok, t) == t < tok.expires_at - TOKEN_EXPIRY_BUFFER

\* TokenCache.get at time t: the stored token when it is valid, else None (NoFile).
CacheGet(c, t) == IF c.present /\ is_valid(c, t) THEN c ELSE NoFile

CacheSet_NoClock(tok, expires_in, t) ==
    [present |-> TRUE, access_token |-> tok, expires_at |-> expires_in]

\* TokenCache.set at time t.
CacheSet(tok, expires_in, t) ==
    [present |-> TRUE, access_token |-> tok, expires_at |-> t + expires_in]

\* expires_in fields of the token endpoint's answers; Absent stands for a
\* response without the field. The endpoint issues tokens that outlive the buffer.
ExpiresIn == {Absent, 600}

\* data.get("expires_in", DEFAULT_TOKEN_EXPIRY)
ExpiresInOf(e) == IF e = Absent THEN DEFAULT_TOKEN_EXPIRY ELSE e

\* Bodies of 2xx answers to /r/<subreddit>/top: children with their created_utc.
PostListings ==
    { <<>>,
      <<[id |-> "p1", created_utc |-> 0]>>,
      <<[id |-> "p1", created_utc |-> -90000], [id |-> "p2", created_utc |-> 0]>> }

\* Bodies of 2xx answers to a comments request: the children of data[1].
CommentListings ==
    { <<>>,
      <<[kind |-> "t1", body |-> "Good post"], [kind |-> "t1", body |-> "[deleted]"],
        [kind |-> "t1", body |-> "late"]>>,
      <<[kind |-> "more", body |-> "hidden"], [kind |-> "t1", body |-> "ok"]>>,
      <<[kind |-> "t1", body |-> "[removed]"], [kind |-> "t1", body |-> ""]>> }

\* post.permalink of the post given to fetch_post_comments.
Permalinks == {"", "/r/a/comments/1/"}
PermalinksOf(op) == IF op = "comments" THEN Permalinks ELSE {""}

Listings(op) == IF op = "posts" THEN PostListings ELSE CommentListings

NoResp == [status |-> 0, retry_after |-> Absent, body |-> <<>>]

\* What the content API can answer: 2xx with a body, 429 with or without
\* Retry-After, 401, another non-2xx status; status 0 stands for a request that
\* ends in a transport error (timeout, connection failure).
Responses(op) ==
    [status : {200}, retry_after : {Absent}, body : Listings(op)]
    \cup [status : {429}, retry_after : {Absent, 2}, body : {<<>>}]
    \cup [status : {401, 403, 503, 0}, retry_after : {Absent}, body : {<<>>}]

\* The locals of a request that has not started.
NewRequest ==
    [pc |-> "start", op |-> "posts", permalink |-> "", ret |-> "init", attempt |-> 0,
     hdr |-> 0, tok |-> 0, expires_in |-> 0, nreq |-> 0, resp |-> NoResp, sleepFor |-> 0,
     rejected |-> 0, refreshes |-> 0, had429 |-> FALSE,
     out |-> "pending", err |-> "none", result |-> <<>>]

\* ------------------------------------------------------------------------
\* RateLimiter
\* ------------------------------------------------------------------------
WINDOW == 60

SemFree_NoCap(p) == TRUE

\* asyncio.Semaphore(max_concurrent): "async with self.semaphore" enters when a
\* permit is free.
SemFree(p) == p > 0

LockFree_NoLock(h) == TRUE

\* asyncio.Lock(): "async with self._lock" enters when no task is inside.
LockFree(h) == h = NoTask

\* The deque is full: len(self.request_times) >= self.requests_per_minute.
WindowFull(q) == Len(q) >= WindowCapacity

WaitTime_NoSleep(q, t) == 0

\* wait_time of lines 49-56: 0 stands for "no sleep".
WaitTime(q, t) ==
    IF WindowFull(q) /\ t - q[1] < WINDOW THEN WINDOW - (t - q[1]) ELSE 0

DequeAppend_NoMaxlen(q, x) == Append(q, x)

DequeAppend_Front(q, x) ==
    IF Len(q) >= WindowCapacity THEN <<x>> \o SubSeq(q, 1, Len(q) - 1) ELSE <<x>> \o q

\* deque(maxlen=requests_per_minute).append(x): a full deque drops its oldest.
DequeAppend(q, x) ==
    IF Len(q) >= WindowCapacity THEN Append(Tail(q), x) ELSE Append(q, x)

SemRelease_Never(p, raised) == p

SemRelease_LeakOnRaise(p, raised) == IF raised THEN p ELSE p + 1

\* __aexit__ of "async with self.semaphore": runs on return and on exception.
SemRelease(p, raised) == p + 1

\* Tasks that hold a permit of the semaphore.
Holding == {t \in RLTasks : rpc[t] \in {"wait_lock", "sleeping", "append", "body"}}

InBody == {t \in RLTasks : rpc[t] = "body"}

\* The state of a client no task has used yet, with an empty token cache.
RQIdle ==
    /\ wall = 0
    /\ cache = NoFile
    /\ access_token = 0
    /\ tokenLock = NoTask
    /\ issued = 0
    /\ cycleExch = 0
    /\ req = [t \in Clients |-> NewRequest]

\* A limiter no task has used yet.
RLIdle ==
    /\ now = 0
    /\ permits = MaxConcurrent
    /\ lockHolder = NoTask
    /\ request_times = <<>>
    /\ rpc = [t \in RLTasks |-> "idle"]
    /\ wakeAt = [t \in RLTasks |-> 0]
    /\ calls = 0
    /\ recent = <<>>
    /\ earliest = [t \in RLTasks |-> 0]
    /\ raisedOnce = FALSE

\* fetch_group has not been called.
NoGroup ==
    [kind |-> "none", name |-> <<>>, subreddits |-> <<>>, posts |-> <<>>,
     error |-> "None", available |-> <<>>]

FGIdle ==
    /\ fgpc = "idle"
    /\ group_name = <<>>
    /\ results = <<>>
    /\ fgout = NoGroup

\* summarize_and_translate has not been called.
NewSummary ==
    [pc |-> "idle", phase |-> "none", group |-> <<>>, posts |-> <<>>, model |-> "None",
     attempt |-> 0, ncalls |-> 0, slept |-> <<>>, last_error |-> "None",
     outcome |-> "None", content |-> <<>>, nret |-> 0, gentext |-> <<>>,
     summary |-> <<>>, napi |-> 0,
     out |-> "none", err |-> "None", text |-> <<>>]

\* fetch_posts_with_comments has not been called.
NoFetch ==
    [pc |-> "idle", listing |-> <<>>, posts |-> <<>>, tasks |-> <<>>,
     out |-> "none", err |-> "none"]

\* _build_summary_prompt has not been called.
NoPrompt ==
    [stage |-> "idle", group |-> <<>>, posts |-> <<>>, content |-> <<>>, prompt |-> <<>>]

SumIdle ==
    /\ sm = NewSummary
    /\ genCalls = <<>>
    /\ pb = NoPrompt
    /\ pw = NoFetch

\* ---- TokenCache, step by step: values ----
TCTasks == {"u", "v"}           \* concurrent callers of the cache

\* What the cache file holds: a token as set() writes it, nothing yet (a file
\* open("w") has just truncated), text that is not JSON, a JSON object without
\* one of the two fields, JSON that is not an object.
NoContent == [kind |-> "nofile", access_token |-> 0, expires_at |-> 0]
Malformed(kind) == [kind |-> kind, access_token |-> 0, expires_at |-> 0]
TokenContent(c) ==
    [kind |-> "token", access_token |-> c.access_token, expires_at |-> c.expires_at]

NoFileTC == [exists |-> FALSE, content |-> NoContent]

NoSet == [n |-> 0, access_token |-> 0, at |-> 0, expires_in |-> 0, nclears |-> 0]

\* The outcome of a call, with what it saw: the content it read, the time of its
\* validity test, whether exists() was true, the last set and the last file
\* change when it took the lock, and the clear() count when it ended.
NoResult ==
    [kind |-> "none", token |-> 0, err |-> "None", read |-> NoContent, at |-> 0,
     sawFile |-> FALSE, lastSet |-> NoSet, nclears |-> 0, lastMut |-> "none"]

NewCall ==
    [pc |-> "idle", op |-> "none", access_token |-> 0, expires_in |-> 0,
     cached |-> NoContent, detached |-> FALSE, inode |-> NoContent, res |-> NoResult]

\* A cache no task is using, over a file that does not exist.
TCIdle ==
    /\ clock = 0
    /\ file = NoFileTC
    /\ cacheLock = NoTask
    /\ tc = [t \in TCTasks |-> NewCall]
    /\ tcOps = 0
    /\ lastSet = NoSet
    /\ nclears = 0
    /\ written = {}
    /\ lastMut = "none"

RLInit == RLIdle /\ RQIdle /\ FGIdle /\ SumIdle /\ TCIdle

\* The clock advances.
Tick ==
    /\ now + TickStep <= MaxTime
    /\ now' = now + TickStep
    /\ UNCHANGED <<permits, lockHolder, request_times, rpc, wakeAt, calls, recent,
                   earliest, raisedOnce>>
    /\ UNCHANGED <<rqVars, svcVars, tcVars>>

\* A task calls acquire(): it queues on the semaphore (line 39).
Call(t) ==
    /\ rpc[t] = "idle"
    /\ calls < MaxCalls
    /\ calls' = calls + 1
    /\ rpc' = [rpc EXCEPT ![t] = "wait_sem"]
    /\ earliest' = [earliest EXCEPT ![t] =
                       IF WindowFull(request_times)
                       THEN now + (WINDOW - (now - request_times[1]))
                       ELSE 0]
    /\ UNCHANGED <<now, permits, lockHolder, request_times, wakeAt, recent, raisedOnce>>
    /\ UNCHANGED <<rqVars, svcVars, tcVars>>

\* "async with self.semaphore" is entered (line 39); the task queues on the lock.
SemAcquire(t) ==
    /\ rpc[t] = "wait_sem"
    /\ SemFree(permits)
    /\ permits' = permits - 1
    /\ rpc' = [rpc EXCEPT ![t] = "wait_lock"]
    /\ UNCHANGED <<now, lockHolder, request_times, wakeAt, calls, recent, earliest,
                   raisedOnce>>
    /\ UNCHANGED <<rqVars, svcVars, tcVars>>

\* "async with self._lock" is entered and lines 46-56 run up to the sleep.
CheckWindow(t) ==
    /\ rpc[t] = "wait_lock"
    /\ LockFree(lockHolder)
    /\ lockHolder' = t
    /\ LET w == WaitTime(request_times, now) IN
          /\ wakeAt' = [wakeAt EXCEPT ![t] = IF w > 0 THEN now + w ELSE 0]
          /\ rpc' = [rpc EXCEPT ![t] = IF w > 0 THEN "sleeping" ELSE "append"]
    /\ UNCHANGED <<now, permits, request_times, calls, recent, earliest, raisedOnce>>
    /\ UNCHANGED <<rqVars, svcVars, tcVars>>

\* asyncio.sleep(wait_time) returns, no earlier than wait_time after it began.
Wake(t) ==
    /\ rpc[t] = "sleeping"
    /\ now >= wakeAt[t]
    /\ rpc' = [rpc EXCEPT ![t] = "append"]
    /\ wakeAt' = [wakeAt EXCEPT ![t] = 0]
    /\ UNCHANGED <<now, permits, lockHolder, request_times, calls, recent, earliest,
                   raisedOnce>>
    /\ UNCHANGED <<rqVars, svcVars, tcVars>>

\* Line 59 records the request, the lock is released, acquire() yields to the body.
Record(t) ==
    /\ rpc[t] = "append"
    /\ request_times' = DequeAppend(request_times, now)
    /\ recent' = IF Len(recent) > WindowCapacity
                 THEN Append(Tail(recent), now)
                 ELSE Append(recent, now)
    /\ lockHolder' = NoTask
    /\ rpc' = [rpc EXCEPT ![t] = "body"]
    /\ UNCHANGED <<now, permits, wakeAt, calls, earliest, raisedOnce>>
    /\ UNCHANGED <<rqVars, svcVars, tcVars>>

\* The guarded body ends, by returning or by raising; the semaphore is released.
BodyExit(t, raised) ==
    /\ rpc[t] = "body"
    /\ permits' = SemRelease(permits, raised)
    /\ raisedOnce' = (raisedOnce \/ raised)
    /\ rpc' = [rpc EXCEPT ![t] = "idle"]
    /\ earliest' = [earliest EXCEPT ![t] = 0]
    /\ UNCHANGED <<now, lockHolder, request_times, wakeAt, calls, recent>>
    /\ UNCHANGED <<rqVars, svcVars, tcVars>>

RLNext ==
    \/ Tick
    \/ \E t \in RLTasks : Call(t)
    \/ \E t \in RLTasks : SemAcquire(t)
    \/ \E t \in RLTasks : CheckWindow(t)
    \/ \E t \in RLTasks : Wake(t)
    \/ \E t \in RLTasks : Record(t)
    \/ \E t \in RLTasks : BodyExit(t, FALSE)
    \/ \E t \in RLTasks : BodyExit(t, TRUE)

SpecRL == RLInit /\ [][RLNext]_vars

\* ------------------------------------------------------------------------
\* Rate limiter properties
\* ------------------------------------------------------------------------

\* C1: with max_concurrent = K and more than K concurrent callers, the number of
\* tasks inside the guarded body never exceeds K.
C1_ConcurrencyCap == Cardinality(InBody) <= MaxConcurrent

\* K tasks are in the body while another caller queues on the semaphore.
C1_Witness ==
    /\ Cardinality(InBody) = MaxConcurrent
    /\ \E t \in RLTasks : rpc[t] = "wait_sem"

\* C2: any WindowCapacity + 1 consecutively recorded timestamps span at least 60
\* seconds, under every interleaving of the callers.
C2_WindowSpan ==
    Len(recent) = WindowCapacity + 1 => recent[Len(recent)] - recent[1] >= WINDOW

\* N + 1 requests were admitted, and one caller sleeps in the critical section
\* while another waits for the lock.
C2_Witness ==
    /\ Len(recent) = WindowCapacity + 1
    /\ \E t, u \in RLTasks : rpc[t] = "sleeping" /\ rpc[u] = "wait_lock"

\* C3: a caller that found the window full, its oldest timestamp being o, when it
\* called acquire() at time c enters the body no earlier than c + 60 - (c - o); and
\* a caller whose check finds the oldest timestamp 60 or more seconds old does not
\* sleep.
C3_WindowWait ==
    /\ [](\A t \in RLTasks : rpc[t] = "body" => now >= earliest[t])
    /\ [][\A t \in RLTasks :
            (rpc[t] = "wait_lock" /\ rpc'[t] # "wait_lock"
               /\ WindowFull(request_times) /\ now - request_times[1] >= WINDOW)
            => rpc'[t] = "append"]_vars
    /\ [][\A t \in RLTasks :
            (rpc[t] = "wait_lock" /\ rpc'[t] = "sleeping")
            => /\ WindowFull(request_times)
               /\ wakeAt'[t] = now + (WINDOW - (now - request_times[1]))]_vars

\* A caller that found the window full enters the body exactly when the wait ends.
C3_Witness ==
    \E t \in RLTasks : rpc[t] = "body" /\ earliest[t] > 0 /\ now = earliest[t]

\* C4: every exit from the guarded body, by return or by exception, gives the
\* permit back: the free permits plus the permits held always equal max_concurrent.
C4_SlotReleased == permits + Cardinality(Holding) = MaxConcurrent

\* After a body raised, max_concurrent callers are admitted again.
C4_Witness == raisedOnce /\ Cardinality(InBody) = MaxConcurrent

\* The limiter under the scheduling of the event loop: a task that can run does
\* run, every guarded body ends, and the clock advances as far as it is modelled.
RLFairness ==
    /\ WF_vars(Tick)
    /\ \A t \in RLTasks :
          /\ WF_vars(SemAcquire(t))
          /\ WF_vars(CheckWindow(t))
          /\ WF_vars(Wake(t))
          /\ WF_vars(Record(t))
          /\ WF_vars(BodyExit(t, FALSE) \/ BodyExit(t, TRUE))

\* The limiter with three callers and MaxLiveCalls calls.
LiveTasks == {"t1", "t2", "t3"}
MaxLiveCalls == 4

LiveNext ==
    \/ Tick
    \/ \E t \in LiveTasks : calls < MaxLiveCalls /\ Call(t)
    \/ \E t \in LiveTasks : SemAcquire(t)
    \/ \E t \in LiveTasks : CheckWindow(t)
    \/ \E t \in LiveTasks : Wake(t)
    \/ \E t \in LiveTasks : Record(t)
    \/ \E t \in LiveTasks : BodyExit(t, FALSE)
    \/ \E t \in LiveTasks : BodyExit(t, TRUE)

SpecRLFair == RLInit /\ [][LiveNext]_vars /\ RLFairness

\* The modelled time is over while a sleep is still to end.
TimeOver ==
    /\ now + TickStep > MaxTime
    /\ \E u \in RLTasks : rpc[u] = "sleeping" /\ wakeAt[u] > now

\* C39: a task that called acquire() is admitted to the body, as long as time
\* advances; the lock is held only by a task that holds a permit, and a task
\* that sleeps for the window holds the lock and its permit until it has
\* recorded its timestamp.
C39_NoDeadlock ==
    /\ [](\A t \in RLTasks :
            /\ lockHolder = t => (t \in Holding /\ rpc[t] \in {"sleeping", "append"})
            /\ rpc[t] \in {"sleeping", "append"} => (lockHolder = t /\ t \in Holding))
    /\ \A t \in RLTasks :
          (rpc[t] \in {"wait_sem", "wait_lock", "sleeping", "append"})
              ~> (rpc[t] = "body" \/ TimeOver)

\* Every permit is taken: one holder sleeps inside the lock and the other waits
\* for the lock, with time left to run.
C39_Witness ==
    /\ permits = 0 /\ ~TimeOver /\ now + TickStep <= MaxTime
    /\ \E t, u \in RLTasks : rpc[t] = "sleeping" /\ rpc[u] = "wait_lock"

\* C31: the deque of timestamps never holds more than window_capacity entries,
\* whatever the interleaving of the callers, and an append to a full deque
\* drops the oldest entry and puts the new timestamp last.
C31_WindowBounded ==
    /\ [](Len(request_times) <= WindowCapacity)
    /\ [][(request_times' # request_times /\ Len(request_times) = WindowCapacity) =>
            /\ Len(request_times') = WindowCapacity
            /\ \A i \in 1..(WindowCapacity - 1) : request_times'[i] = request_times[i + 1]
            /\ request_times'[WindowCapacity] = now]_vars

\* One more request than the capacity was recorded: the deque is full and its
\* first entry of before is gone.
C31_Witness ==
    /\ Len(recent) = WindowCapacity + 1
    /\ Len(request_times) = WindowCapacity
    /\ request_times[1] # recent[1]

\* acquire() calls that have reached the guarded body: the calls made less those
\* still between line 39 and line 59.
Admitted ==
    calls - Cardinality({t \in RLTasks :
                            rpc[t] \in {"wait_sem", "wait_lock", "sleeping", "append"}})

\* C35: a task reaches the guarded body in the step that records one timestamp,
\* the current time, and nothing else records; the recorded timestamps are in
\* non-decreasing order; and a deque below capacity holds as many timestamps as
\* acquisitions were admitted.
C35_OneStampPerAdmission ==
    /\ [](\A i, j \in DOMAIN request_times : i < j => request_times[i] <= request_times[j])
    /\ [](Len(request_times) < WindowCapacity => Len(request_times) = Admitted)
    /\ [][\A t \in RLTasks :
            (rpc[t] # "body" /\ rpc'[t] = "body") =>
                /\ request_times' # <<>>
                /\ request_times'[Len(request_times')] = now
                /\ IF Len(request_times) < WindowCapacity
                   THEN /\ Len(request_times') = Len(request_times) + 1
                        /\ SubSeq(request_times', 1, Len(request_times)) = request_times
                   ELSE /\ Len(request_times') = Len(request_times)
                        /\ SubSeq(request_times', 1, Len(request_times) - 1)
                              = Tail(request_times)]_vars
    /\ [][request_times' # request_times =>
            Cardinality({t \in RLTasks : rpc[t] # "body" /\ rpc'[t] = "body"}) = 1]_vars

\* Two callers were admitted at different times while a third call is pending.
C35_Witness ==
    /\ Len(request_times) = 2 /\ request_times[1] < request_times[2]
    /\ \E t \in RLTasks : rpc[t] = "wait_lock"


\* ------------------------------------------------------------------------
\* RedditClient
\* ------------------------------------------------------------------------

RetryAfter_HeaderIgnored(h) == DEFAULT_RETRY_AFTER

\* int(response.headers.get("Retry-After", 5))
RetryAfter(h) == IF h = Absent THEN DEFAULT_RETRY_AFTER ELSE h

Backoff_Constant(attempt) == 1

\* asyncio.sleep(2**attempt) of line 165.
Backoff(attempt) == 2 ^ attempt

DoubleCheckHit_Skipped(c) == FALSE

\* The double check of lines 87-90: the cache read under the lock returned a token.
DoubleCheckHit(c) == c.present

\* fetch_top_posts, lines 196-221: the posts created within the last 24 hours.
ParsePosts(body, t) ==
    LET kept == SelectSeq(body, LAMBDA p : ~(p.created_utc < t - DAY))
    IN  [i \in 1..Len(kept) |-> kept[i].id]

ParseComments_AnyKind(children, limit) ==
    LET head == SubSeq(children, 1, IF Len(children) < limit THEN Len(children) ELSE limit)
        kept == SelectSeq(head, LAMBDA c : c.body \notin {"[deleted]", "[removed]", ""})
    IN  [i \in 1..Len(kept) |-> kept[i].body]

\* fetch_post_comments, lines 256-281: the comment-kind children among the first
\* `limit` whose body is no placeholder.
ParseComments(children, limit) ==
    LET head == SubSeq(children, 1, IF Len(children) < limit THEN Len(children) ELSE limit)
        kept == SelectSeq(head, LAMBDA c :
                    c.kind = "t1" /\ c.body \notin {"[deleted]", "[removed]", ""})
    IN  [i \in 1..Len(kept) |-> kept[i].body]

Parse(op, body, t) ==
    IF op = "posts" THEN ParsePosts(body, t) ELSE ParseComments(body, CommentLimit)

\* The call is over: it returned `result` or raised `err`.
Finish(r, out, err, result) ==
    [r EXCEPT !.pc = "done", !.out = out, !.err = err, !.result = result,
              !.sleepFor = 0, !.ret = "init", !.tok = 0, !.expires_in = 0,
              !.hdr = 0, !.rejected = 0]

\* "except RedditClientError" of fetch_top_posts (192) and fetch_post_comments (252):
\* RedditClientError and its subclass RateLimitExceededError become an empty list,
\* any other exception leaves the fetch.
FetchBoundary(r, err) ==
    IF err \in {"RedditClientError", "RateLimitExceededError"}
    THEN Finish(r, "returned", err, <<>>)
    ELSE Finish(r, "raised", err, <<>>)

\* The loop of line 130 moves to its next iteration, or runs out (line 167).
AfterAttempt(r) ==
    IF r.attempt + 1 < MAX_RETRIES
    THEN [r EXCEPT !.attempt = @ + 1, !.pc = "acquire", !.sleepFor = 0, !.ret = "init",
                   !.resp = NoResp]
    ELSE FetchBoundary(r, "RateLimitExceededError")

\* "except httpx.HTTPStatusError", lines 161-165.
StatusFailure(r) ==
    IF r.attempt = MAX_RETRIES - 1
    THEN FetchBoundary(r, "RedditClientError")
    ELSE [r EXCEPT !.pc = "backoff", !.sleepFor = Backoff(r.attempt), !.ret = "init"]

\* _ensure_token returns tok: to line 122 before the loop, or to line 154 in the
\* 401 branch, which sets the header and continues.
TokenReturned(r, tok) ==
    IF r.ret = "init"
    THEN [r EXCEPT !.hdr = tok, !.pc = "acquire", !.tok = 0, !.expires_in = 0]
    ELSE AfterAttempt([r EXCEPT !.hdr = tok, !.tok = 0, !.expires_in = 0])

\* The task is inside "async with self.rate_limiter.acquire()" of line 131.
HoldsSlot(r) ==
    \/ r.pc \in {"inflight", "sleep429", "backoff"}
    \/ r.ret = "401" /\ r.pc \in {"tok_fast", "tok_lock", "exch", "tok_set"}

\* Task t moves to r2; leaving the acquire() block releases its permit.
Step(t, r2) ==
    /\ req' = [req EXCEPT ![t] = r2]
    /\ permits' = IF HoldsSlot(req[t]) /\ ~HoldsSlot(r2)
                  THEN SemRelease(permits, r2.out = "raised")
                  ELSE permits

\* The client's acquire() calls are admitted by the limiter's semaphore; its
\* window and lock are those of SpecRL and stay as built.
RLFrame ==
    UNCHANGED <<now, lockHolder, request_times, rpc, wakeAt, calls, recent, earliest,
                raisedOnce, svcVars, tcVars>>

RQInit ==
    /\ RLIdle
    /\ FGIdle
    /\ SumIdle
    /\ TCIdle
    /\ wall = 0
    /\ access_token = 0
    /\ tokenLock = NoTask
    /\ cycleExch = 0
    /\ req = [t \in Clients |-> NewRequest]
    /\ \/ cache = NoFile /\ issued = 0
       \/ cache = CacheSet(1, 600, 0) /\ issued = 1

\* time.time() advances; a cached token may pass expires_at - buffer.
WallTick ==
    /\ wall + WallStep <= MaxWall
    /\ wall' = wall + WallStep
    /\ cycleExch' = IF CacheGet(cache, wall).present
                       /\ ~CacheGet(cache, wall + WallStep).present
                    THEN 0 ELSE cycleExch
    /\ UNCHANGED <<cache, access_token, tokenLock, issued, req, permits>>
    /\ RLFrame

NoPermalink_Ignored(permalink) == FALSE

\* "not post.permalink" of line 238.
NoPermalink(permalink) == permalink = ""

\* fetch_top_posts or fetch_post_comments is called: fetch_post_comments returns
\* at line 239 for a post without permalink, otherwise the call reaches
\* _ensure_token at line 122.
FetchCall(t, op, permalink) ==
    /\ req[t].pc = "start"
    /\ LET r == [req[t] EXCEPT !.op = op, !.permalink = permalink] IN
          IF op = "comments" /\ NoPermalink(permalink)
          THEN Step(t, Finish(r, "returned", "none", <<>>))
          ELSE Step(t, [r EXCEPT !.pc = "tok_fast"])
    /\ UNCHANGED <<wall, cache, access_token, tokenLock, issued, cycleExch>>
    /\ RLFrame

\* _ensure_token, fast path (lines 79-82).
EnsureFast(t) ==
    /\ req[t].pc = "tok_fast"
    /\ IF access_token # 0 /\ CacheGet(cache, wall).present
       THEN Step(t, TokenReturned(req[t], access_token))
       ELSE Step(t, [req[t] EXCEPT !.pc = "tok_lock"])
    /\ UNCHANGED <<wall, cache, access_token, tokenLock, issued, cycleExch>>
    /\ RLFrame

\* _ensure_token, slow path: the lock is taken, the cache is read again, and
\* either the cached token is returned or the exchange is sent (lines 85-101).
EnsureLocked(t) ==
    /\ req[t].pc = "tok_lock"
    /\ tokenLock = NoTask
    /\ LET c == CacheGet(cache, wall) IN
          IF DoubleCheckHit(c)
          THEN /\ access_token' = c.access_token
               /\ Step(t, TokenReturned(req[t], c.access_token))
               /\ UNCHANGED <<tokenLock, cycleExch>>
          ELSE /\ tokenLock' = t
               /\ cycleExch' = cycleExch + 1
               /\ Step(t, [req[t] EXCEPT !.pc = "exch"])
               /\ UNCHANGED access_token
    /\ UNCHANGED <<wall, cache, issued>>
    /\ RLFrame

\* The token endpoint answers 2xx: lines 102-106.
ExchangeOk(t, e) ==
    /\ req[t].pc = "exch"
    /\ issued' = issued + 1
    /\ access_token' = issued + 1
    /\ Step(t, [req[t] EXCEPT !.pc = "tok_set", !.tok = issued + 1,
                              !.expires_in = ExpiresInOf(e)])
    /\ UNCHANGED <<wall, cache, tokenLock, cycleExch>>
    /\ RLFrame

\* token_cache.set writes the file; the lock is released and the token returned
\* (lines 109-111).
TokenStore(t) ==
    /\ req[t].pc = "tok_set"
    /\ cache' = CacheSet(req[t].tok, req[t].expires_in, wall)
    /\ tokenLock' = NoTask
    /\ Step(t, TokenReturned(req[t], access_token))
    /\ UNCHANGED <<wall, access_token, issued, cycleExch>>
    /\ RLFrame

\* The token exchange fails: raise_for_status raises HTTPStatusError on a non-2xx
\* answer, the post itself raises on a transport error. Before the loop nothing
\* catches either; in the 401 branch line 161 catches the HTTPStatusError.
ExchangeFail(t, transport) ==
    /\ req[t].pc = "exch"
    /\ tokenLock' = NoTask
    /\ cycleExch' = 0
    /\ Step(t, IF transport THEN FetchBoundary(req[t], "TransportError")
               ELSE IF req[t].ret = "init" THEN FetchBoundary(req[t], "HTTPStatusError")
               ELSE StatusFailure(req[t]))
    /\ UNCHANGED <<wall, cache, access_token, issued>>
    /\ RLFrame

\* An iteration enters acquire() and sends the request (lines 131-138).
Acquire(t) ==
    /\ req[t].pc = "acquire"
    /\ SemFree(permits)
    /\ permits' = permits - 1
    /\ req' = [req EXCEPT ![t] = [@ EXCEPT !.pc = "inflight", !.nreq = @ + 1]]
    /\ UNCHANGED <<wall, cache, access_token, tokenLock, issued, cycleExch>>
    /\ RLFrame

\* The content API answers (lines 141-165).
Respond(t, resp) ==
    /\ req[t].pc = "inflight"
    /\ LET r == [req[t] EXCEPT !.resp = resp, !.rejected = 0] IN
          IF resp.status = 401
          THEN /\ cache' = NoFile
               /\ cycleExch' = IF CacheGet(cache, wall).present THEN 0 ELSE cycleExch
               /\ Step(t, [r EXCEPT !.rejected = r.hdr, !.refreshes = @ + 1,
                                    !.ret = "401", !.pc = "tok_fast"])
          ELSE /\ UNCHANGED <<cache, cycleExch>>
               /\ Step(t, CASE resp.status = 200 ->
                                 Finish(r, "returned", "none", Parse(r.op, resp.body, wall))
                            [] resp.status = 429 ->
                                 [r EXCEPT !.pc = "sleep429", !.had429 = TRUE,
                                           !.sleepFor = RetryAfter(resp.retry_after)]
                            [] resp.status = 0 -> FetchBoundary(r, "TransportError")
                            [] OTHER -> StatusFailure(r))
    /\ UNCHANGED <<wall, access_token, tokenLock, issued>>
    /\ RLFrame

\* asyncio.sleep of line 147 or line 165 returns and the iteration ends.
SleepDone(t) ==
    /\ req[t].pc \in {"sleep429", "backoff"}
    /\ Step(t, AfterAttempt(req[t]))
    /\ UNCHANGED <<wall, cache, access_token, tokenLock, issued, cycleExch>>
    /\ RLFrame

ReqNext ==
    \/ WallTick
    \/ \E t \in Clients : \E op \in OpsOf(t) : \E permalink \in PermalinksOf(op) :
          FetchCall(t, op, permalink)
    \/ \E t \in Clients : EnsureFast(t)
    \/ \E t \in Clients : EnsureLocked(t)
    \/ \E t \in Clients, e \in ExpiresIn : ExchangeOk(t, e)
    \/ \E t \in Clients : TokenStore(t)
    \/ \E t \in Clients, transport \in BOOLEAN : ExchangeFail(t, transport)
    \/ \E t \in Clients : Acquire(t)
    \/ \E t \in Clients : \E resp \in Responses(req[t].op) : Respond(t, resp)
    \/ \E t \in Clients : SleepDone(t)

SpecReq == RQInit /\ [][ReqNext]_vars


\* ------------------------------------------------------------------------
\* Content API client properties
\* ------------------------------------------------------------------------

\* Tasks whose token exchange is under way: sent, or answered and not yet stored.
Exchanging == {t \in Clients : req[t].pc \in {"exch", "tok_set"}}

\* C5: concurrent callers of _ensure_token send at most one token exchange per
\* expiry cycle: at most one exchange is under way at a time, none is sent or
\* pending while the cache holds a valid token, and between two losses of the
\* valid token (expiry, clear, failed exchange) at most one exchange is sent.
C5_SingleExchange ==
    /\ cycleExch <= 1
    /\ Cardinality(Exchanging) <= 1
    /\ \A t \in Clients : req[t].pc = "exch" => ~CacheGet(cache, wall).present

\* Two first calls race: one has its new token in hand, the other waits for the
\* refresh lock.
C5_Witness ==
    \E t, u \in Clients :
        /\ req[t].pc = "tok_set" /\ req[t].ret = "init"
        /\ req[u].pc = "tok_lock" /\ req[u].ret = "init"

\* C6: fetch_top_posts and fetch_post_comments never raise on a transient remote
\* failure (timeout, connection failure, non-2xx status, 429 exhaustion, failed
\* token exchange): they return an empty sequence.
C6_NeverRaises == \A t \in Clients : req[t].out # "raised"

\* C7: a 429 is followed by a sleep of Retry-After seconds (5 without the header)
\* and a retry, at most max_retries requests are sent, a request that ends on a 429
\* has used them all, and a 200, after a 429 or not, yields the parsed body.
C7_RetryAfter ==
    \A t \in Clients :
        LET r == req[t] IN
        /\ r.pc = "sleep429" =>
              /\ r.resp.status = 429
              /\ r.sleepFor = IF r.resp.retry_after = Absent THEN 5 ELSE r.resp.retry_after
        /\ r.nreq <= MAX_RETRIES
        /\ (r.pc = "done" /\ r.resp.status = 429) =>
              /\ r.nreq = MAX_RETRIES
              /\ r.err = "RateLimitExceededError"
        /\ (r.pc = "done" /\ r.resp.status = 200) =>
              /\ r.out = "returned"
              /\ r.err = "none"
              /\ r.result = Parse(r.op, r.resp.body, wall)

\* fetch_top_posts met a 429, retried, and returned the one post of the 200.
C7_Witness ==
    \E t \in Clients :
        /\ req[t].pc = "done" /\ req[t].op = "posts" /\ req[t].had429
        /\ req[t].resp.status = 200 /\ req[t].out = "returned"
        /\ Len(req[t].result) = 1

\* C8: after a 401 the request is retried with a token other than the rejected
\* one, and the 401 costs no attempt: a request whose single 401 was answered by a
\* refresh does not run out of attempts on it.
C8_RefreshAndRetry ==
    \A t \in Clients :
        LET r == req[t] IN
        /\ (r.pc = "inflight" /\ r.rejected # 0) => r.hdr # r.rejected
        /\ ~(r.pc = "done" /\ r.resp.status = 401 /\ r.refreshes = 1
               /\ r.err = "RateLimitExceededError")

\* C9: one request forces at most one token refresh; a second 401 ends it.
C9_OneRefresh == \A t \in Clients : req[t].refreshes <= 1

\* C10: a non-2xx answer other than 429 and 401 is followed by a sleep of
\* 2^attempt seconds (1, then 2) when an attempt is left; after the last attempt
\* the request fails with RedditClientError, which the fetch turns into an empty list.
C10_Backoff ==
    \A t \in Clients :
        LET r == req[t] IN
        /\ r.pc = "backoff" =>
              /\ r.attempt < MAX_RETRIES - 1
              /\ r.attempt = 0 => r.sleepFor = 1
              /\ r.attempt = 1 => r.sleepFor = 2
        /\ r.nreq <= MAX_RETRIES
        /\ (r.pc = "done" /\ r.resp.status \in {403, 503}) =>
              /\ r.nreq = MAX_RETRIES
              /\ r.err = "RedditClientError"
              /\ r.out = "returned"
              /\ r.result = <<>>

\* Three attempts failed, the last two after backoff; the fetch returned [].
C10_Witness ==
    \E t \in Clients :
        /\ req[t].pc = "done" /\ req[t].resp.status \in {403, 503}
        /\ req[t].err = "RedditClientError" /\ req[t].out = "returned"
        /\ ~req[t].had429 /\ req[t].refreshes = 0

\* C11: a timeout or connection error of a content request is retried like a
\* non-2xx answer: the request that ends on one has made max_retries attempts
\* and fails with RedditClientError, never with the transport exception.
C11_TransportRetried ==
    \A t \in Clients :
        (req[t].pc = "done" /\ req[t].resp.status = 0) =>
            /\ req[t].nreq = MAX_RETRIES
            /\ req[t].err = "RedditClientError"

\* C29: fetch_post_comments that got a 2xx answer returns, in listing order,
\* exactly the children among the first `limit` that are of kind "t1" and whose
\* body is not "", "[deleted]" or "[removed]".
C29_CommentFilter ==
    \A t \in Clients :
        (req[t].pc = "done" /\ req[t].op = "comments" /\ req[t].resp.status = 200) =>
            LET children == req[t].resp.body
                keep == {k \in DOMAIN children :
                            /\ k <= CommentLimit
                            /\ children[k].kind = "t1"
                            /\ children[k].body # ""
                            /\ children[k].body # "[deleted]"
                            /\ children[k].body # "[removed]"}
                nth(i) == CHOOSE k \in keep : Cardinality({j \in keep : j < k}) = i - 1
            IN /\ req[t].out = "returned"
               /\ Len(req[t].result) = Cardinality(keep)
               /\ \A i \in 1..Len(req[t].result) : req[t].result[i] = children[nth(i)].body

\* A listing with a child that is no comment in front of a comment: the comment
\* alone came back.
C29_Witness ==
    \E t \in Clients :
        /\ req[t].pc = "done" /\ req[t].op = "comments" /\ req[t].resp.status = 200
        /\ Len(req[t].resp.body) = 2 /\ req[t].resp.body[1].kind = "more"
        /\ req[t].result = <<"ok">>

\* C30: fetch_post_comments on a post whose permalink is empty returns the
\* empty list in its first step: it sends no request, holds no permit, and the
\* step leaves the token cache, the in-memory token, the token lock, the
\* exchange count and the rate limiter as they were.
C30_NoPermalinkNoWork ==
    /\ [](\A t \in Clients :
            (req[t].op = "comments" /\ req[t].permalink = "" /\ req[t].pc # "start") =>
                /\ req[t].pc = "done" /\ req[t].out = "returned"
                /\ req[t].result = <<>>
                /\ req[t].nreq = 0 /\ req[t].refreshes = 0
                /\ ~HoldsSlot(req[t]))
    /\ [][\A t \in Clients :
            (req[t].pc = "start" /\ req'[t].pc # "start"
                /\ req'[t].op = "comments" /\ req'[t].permalink = "") =>
                UNCHANGED <<cache, access_token, tokenLock, issued, rlVars>>]_vars

\* The call on a post without permalink is over while no token was ever issued.
C30_Witness ==
    \E t \in Clients :
        /\ req[t].pc = "done" /\ req[t].op = "comments" /\ req[t].permalink = ""
        /\ req[t].out = "returned" /\ issued = 0

\* C33: a task with an HTTP request under way, to the content API or to the
\* token endpoint, is inside the acquire() block of the rate limiter.
C33_AllUnderAcquire ==
    \A t \in Clients : req[t].pc \in {"exch", "inflight"} => HoldsSlot(req[t])

\* C37: the clear of a 401 handler leaves a valid cached token that is not the
\* rejected one in place, and two requests whose 401 rejected the same token go
\* on with the same new token.
C37_SingleRefresh ==
    /\ [][\A t \in Clients :
            (/\ req[t].pc = "inflight" /\ req'[t].pc = "tok_fast" /\ req'[t].ret = "401"
             /\ CacheGet(cache, wall).present
             /\ CacheGet(cache, wall).access_token # req[t].hdr)
                => CacheGet(cache', wall').present]_vars
    /\ [](\A a, b \in Clients :
            (/\ a # b
             /\ req[a].rejected # 0 /\ req[a].rejected = req[b].rejected
             /\ req[a].pc \in {"acquire", "inflight"} /\ req[a].hdr # req[a].rejected
             /\ req[b].pc \in {"acquire", "inflight"} /\ req[b].hdr # req[b].rejected)
                => req[a].hdr = req[b].hdr)

\* C38: a call of _request that met no transport error has sent at most
\* max_retries content requests, holds no permit when it is over, and ended
\* with the parsed body of a 2xx answer, with RedditClientError, or with
\* RateLimitExceededError after max_retries requests the last of which was
\* answered 429 or 401.
C38_OutcomeClassified ==
    \A t \in Clients :
        (/\ req[t].pc = "done"
         /\ ~(req[t].op = "comments" /\ req[t].permalink = "")
         /\ req[t].err # "TransportError") =>
            /\ req[t].nreq <= MAX_RETRIES
            /\ ~HoldsSlot(req[t])
            /\ \/ /\ req[t].err = "none" /\ req[t].resp.status = 200
                  /\ req[t].result = Parse(req[t].op, req[t].resp.body, wall)
               \/ req[t].err = "RedditClientError"
               \/ /\ req[t].err = "RateLimitExceededError"
                  /\ req[t].nreq = MAX_RETRIES
                  /\ req[t].resp.status \in {429, 401}


\* ------------------------------------------------------------------------
\* NewsFetcher.fetch_group
\* ------------------------------------------------------------------------
MaxNameLen == 2                 \* longest group name passed to fetch_group
MaxPostsPerSource == 2          \* most posts one source's fetch returns
Letters == {"a", "A", "b", "B", "1"}
Scores == {-1, 5}               \* post scores, a negative one included

\* The group table as Config._parse_subreddit_groups builds it (config.py 90-102):
\* keys lower-cased, every member list non-empty; in insertion order.
subreddit_groups ==
    << [name |-> <<"a", "b">>, subreddits |-> <<"s1", "s2", "s3">>],
       [name |-> <<"b", "1">>, subreddits |-> <<"s2", "s1">>] >>

GroupKeys == [i \in 1..Len(subreddit_groups) |-> subreddit_groups[i].name]

\* The names fetch_group is called with: every string up to MaxNameLen.
Names == UNION {[1..n -> Letters] : n \in 0..MaxNameLen}

\* What one source's fetch_posts_with_comments returns: posts of the source,
\* each known by its place pos in that result.
SourcePosts(sub) ==
    UNION { {[k \in 1..n |-> [score |-> f[k], subreddit |-> sub, pos |-> k]] :
                f \in [1..n -> Scores]} : n \in 0..MaxPostsPerSource }

LowerChar(c) == CASE c = "A" -> "a" [] c = "B" -> "b" [] OTHER -> c

lower_Identity(s) == s

\* str.lower() of line 53.
lower(s) == [i \in 1..Len(s) |-> LowerChar(s[i])]

Lookup_EmptyForUnknown(name) ==
    IF \E i \in 1..Len(subreddit_groups) : subreddit_groups[i].name = name
    THEN [found |-> TRUE,
          subreddits |-> subreddit_groups[CHOOSE i \in 1..Len(subreddit_groups) :
                                             subreddit_groups[i].name = name].subreddits]
    ELSE [found |-> TRUE, subreddits |-> <<>>]

\* "group_name_lower not in self.subreddit_groups" and the lookup of line 59.
Lookup(name) ==
    IF \E i \in 1..Len(subreddit_groups) : subreddit_groups[i].name = name
    THEN [found |-> TRUE,
          subreddits |-> subreddit_groups[CHOOSE i \in 1..Len(subreddit_groups) :
                                             subreddit_groups[i].name = name].subreddits]
    ELSE [found |-> FALSE, subreddits |-> <<>>]

\* isinstance(result, BaseException) of line 69.
IsFailure(r) == r.state = "exc"

GatherOutcome_Propagate(rs) ==
    [ready  |-> \/ \E i \in 1..Len(rs) : rs[i].state = "exc"
                \/ \A i \in 1..Len(rs) : rs[i].state # "running",
     raised |-> \E i \in 1..Len(rs) : rs[i].state = "exc"]

\* asyncio.gather(*tasks, return_exceptions=True): completes when every task has,
\* and hands exceptions back as results.
GatherOutcome(rs) ==
    [ready  |-> \A i \in 1..Len(rs) : rs[i].state # "running",
     raised |-> FALSE]

\* The loop of lines 67-72: the successful results, concatenated in member order.
RECURSIVE Collected(_)
Collected(rs) ==
    IF rs = <<>> THEN <<>>
    ELSE (IF IsFailure(Head(rs)) THEN <<>> ELSE Head(rs).posts) \o Collected(Tail(rs))

RECURSIVE InsertByScore_BeforeEqual(_, _)
InsertByScore_BeforeEqual(sorted, p) ==
    IF sorted = <<>> THEN <<p>>
    ELSE IF Head(sorted).score > p.score
         THEN <<Head(sorted)>> \o InsertByScore_BeforeEqual(Tail(sorted), p)
         ELSE <<p>> \o sorted

\* p goes behind every post whose score is at least its own.
RECURSIVE InsertByScore(_, _)
InsertByScore(sorted, p) ==
    IF sorted = <<>> THEN <<p>>
    ELSE IF Head(sorted).score >= p.score
         THEN <<Head(sorted)>> \o InsertByScore(Tail(sorted), p)
         ELSE <<p>> \o sorted

SortByScoreDesc_Unsorted(s) == s

\* list.sort(key=score, reverse=True) of line 75: descending and stable.
RECURSIVE SortByScoreDesc(_)
SortByScoreDesc(s) ==
    IF s = <<>> THEN <<>>
    ELSE InsertByScore(SortByScoreDesc(SubSeq(s, 1, Len(s) - 1)), s[Len(s)])

FGFrame == UNCHANGED <<rlVars, rqVars, sm, genCalls, pb, pw, tcVars>>

FGInit == RLIdle /\ RQIdle /\ FGIdle /\ SumIdle /\ TCIdle

\* fetch_group(name) runs to the raise of line 57 or to the gather of line 64,
\* which starts one _fetch_subreddit task per member.
FetchGroup(name) ==
    /\ fgpc = "idle"
    /\ group_name' = name
    /\ LET found == Lookup(lower(name)) IN
          IF ~found.found
          THEN /\ fgpc' = "done"
               /\ results' = <<>>
               /\ fgout' = [NoGroup EXCEPT !.kind = "raised", !.error = "ValueError",
                                           !.name = name, !.available = GroupKeys]
          ELSE /\ fgpc' = "gather"
               /\ results' = [i \in 1..Len(found.subreddits) |->
                                 [subreddit |-> found.subreddits[i], state |-> "running",
                                  posts |-> <<>>, nth |-> 0]]
               /\ UNCHANGED fgout
    /\ FGFrame

\* The tasks of the gather that are over.
Completed(rs) == {i \in DOMAIN rs : rs[i].state # "running"}

\* The fetch of member i returns its posts; nth is history: it is the nth task
\* of the gather to end.
SourceReturns(i, posts) ==
    /\ fgpc = "gather"
    /\ i \in 1..Len(results)
    /\ results[i].state = "running"
    /\ posts \in SourcePosts(results[i].subreddit)
    /\ results' = [results EXCEPT ![i] =
                       [@ EXCEPT !.state = "ok", !.posts = posts,
                                 !.nth = Cardinality(Completed(results)) + 1]]
    /\ UNCHANGED <<fgpc, group_name, fgout>>
    /\ FGFrame

\* The fetch of member i raises.
SourceRaises(i) ==
    /\ fgpc = "gather"
    /\ i \in 1..Len(results)
    /\ results[i].state = "running"
    /\ results' = [results EXCEPT ![i] =
                       [@ EXCEPT !.state = "exc",
                                 !.nth = Cardinality(Completed(results)) + 1]]
    /\ UNCHANGED <<fgpc, group_name, fgout>>
    /\ FGFrame

\* gather completes and fetch_group runs to its return (lines 64-83).
Collect ==
    /\ fgpc = "gather"
    /\ GatherOutcome(results).ready
    /\ fgpc' = "done"
    /\ fgout' = IF GatherOutcome(results).raised
                THEN [NoGroup EXCEPT !.kind = "raised", !.error = "Exception"]
                ELSE [NoGroup EXCEPT !.kind = "returned",
                                     !.name = lower(group_name),
                                     !.subreddits = Lookup(lower(group_name)).subreddits,
                                     !.posts = SortByScoreDesc(Collected(results))]
    /\ UNCHANGED <<group_name, results>>
    /\ FGFrame

FGNext ==
    \/ \E name \in Names : FetchGroup(name)
    \/ \E i \in DOMAIN results : \E posts \in SourcePosts(results[i].subreddit) :
          SourceReturns(i, posts)
    \/ \E i \in DOMAIN results : SourceRaises(i)
    \/ Collect

SpecFG == FGInit /\ [][FGNext]_vars


\* ------------------------------------------------------------------------
\* fetch_group properties
\* ------------------------------------------------------------------------

\* How often post p occurs in the sequence s.
Occurrences(s, p) == Cardinality({k \in 1..Len(s) : s[k] = p})

UpperChar(c) == CASE c = "a" -> "A" [] c = "b" -> "B" [] OTHER -> c

\* name is key written in some casing.
IsCasingOf(name, key) ==
    /\ Len(name) = Len(key)
    /\ \A i \in 1..Len(key) : name[i] \in {key[i], UpperChar(key[i])}

Configured(name) == \E g \in 1..Len(subreddit_groups) : IsCasingOf(name, GroupKeys[g])

C13_Sorted ==
    fgout.kind = "returned" =>
        \A k \in 1..(Len(fgout.posts) - 1) :
            fgout.posts[k].score >= fgout.posts[k + 1].score

\* Three posts of two members, a negative score among them, that were not in
\* score order as collected.
C13_Witness ==
    /\ fgout.kind = "returned" /\ Len(fgout.posts) >= 3
    /\ \E k \in 1..Len(fgout.posts) : fgout.posts[k].score < 0
    /\ fgout.posts[1].subreddit # fgout.posts[2].subreddit
    /\ Collected(results) # fgout.posts

\* The place of the source of post p in the member list.
MemberOf(p) == CHOOSE i \in DOMAIN results : results[i].subreddit = p.subreddit

\* C32: in a returned group, of two posts of equal score the one of the earlier
\* member of the list stands first, and of two of the same source the one that
\* stood first in that source's result, whatever the order in which the
\* fetches of the gather ended.
C32_StableTies ==
    fgout.kind = "returned" =>
        \A k, l \in DOMAIN fgout.posts :
            (k < l /\ fgout.posts[k].score = fgout.posts[l].score) =>
                \/ MemberOf(fgout.posts[k]) < MemberOf(fgout.posts[l])
                \/ /\ MemberOf(fgout.posts[k]) = MemberOf(fgout.posts[l])
                   /\ fgout.posts[k].pos < fgout.posts[l].pos

\* The last member's fetch ended first and the first member's last; the posts
\* of the first member, equal in score among themselves and to one of the last
\* member, stand in front of it and in their own order.
C32_Witness ==
    /\ fgout.kind = "returned" /\ Len(results) = 3
    /\ results[3].nth = 1 /\ results[1].nth = 3
    /\ Len(fgout.posts) >= 3
    /\ fgout.posts[1].score = fgout.posts[3].score
    /\ fgout.posts[1].subreddit = results[1].subreddit /\ fgout.posts[1].pos = 1
    /\ fgout.posts[2].subreddit = results[1].subreddit /\ fgout.posts[2].pos = 2
    /\ fgout.posts[3].subreddit = results[3].subreddit

\* C14: for a configured group name in any casing, fetch_group fetches each
\* member once, in member order, and returns the group under its lower-case key
\* with the configured member list and the merged posts of the members.
C14_CaseInsensitive ==
    \A g \in 1..Len(subreddit_groups) :
        (fgpc # "idle" /\ IsCasingOf(group_name, GroupKeys[g])) =>
            /\ Len(results) = Len(subreddit_groups[g].subreddits)
            /\ \A i \in DOMAIN results :
                  results[i].subreddit = subreddit_groups[g].subreddits[i]
            /\ fgpc = "done" =>
                  /\ fgout.kind = "returned"
                  /\ fgout.name = GroupKeys[g]
                  /\ fgout.subreddits = subreddit_groups[g].subreddits
                  /\ (\A i \in DOMAIN results : results[i].state = "ok") =>
                        /\ Len(fgout.posts) = Len(Collected(results))
                        /\ \A i \in DOMAIN results : \A k \in 1..Len(results[i].posts) :
                              Occurrences(fgout.posts, results[i].posts[k]) >= 1

\* The name in upper case, two members answering with the scores -1 and 5: the
\* group comes back under the lower-case key with the posts ordered 5, -1.
C14_Witness ==
    /\ fgpc = "done" /\ group_name = <<"B", "1">> /\ fgout.name = <<"b", "1">>
    /\ Len(results) = 2
    /\ results[1].state = "ok" /\ results[2].state = "ok"
    /\ Len(results[1].posts) = 1 /\ results[1].posts[1].score = -1
    /\ Len(results[2].posts) = 1 /\ results[2].posts[1].score = 5
    /\ Len(fgout.posts) = 2
    /\ fgout.posts[1].score = 5 /\ fgout.posts[2].score = -1

\* C15: for a name that is no configured group in any casing, fetch_group raises
\* an error that lists the configured names, returns no group, and starts no fetch.
C15_UnknownRaises ==
    (fgpc # "idle" /\ ~Configured(group_name)) =>
        /\ fgpc = "done"
        /\ fgout.kind = "raised"
        /\ fgout.error = "ValueError"
        /\ fgout.name = group_name
        /\ fgout.available = GroupKeys
        /\ results = <<>>

\* fetch_group was called with the prefix of a configured name.
C15_Witness ==
    /\ fgpc = "done" /\ group_name = <<"a">> /\ fgout.kind = "raised"
    /\ Len(fgout.available) = 2


\* ------------------------------------------------------------------------
\* Summarizer.summarize_and_translate over AnthropicClient.generate
\* ------------------------------------------------------------------------
MaxBlocks == 2                  \* most content blocks in one API response
MaxSumPosts == 2                \* most posts passed to summarize_and_translate

GEN_MAX_RETRIES == 3            \* MAX_RETRIES of anthropic_client.py
INITIAL_RETRY_DELAY == 2

MAX_CONTENT_LENGTH == 100000
SELFTEXT_CAP == 1000            \* post.selftext[:1000]
COMMENT_CAP == 500              \* comment.body[:500]
SOURCE_TITLE_CAP == 60          \* post.title[:60]

\* A text is a sequence of pieces, "" + a + b their concatenation. The piece
\* [s, n] is the first n characters of the string named s: P for the fixed
\* strings of the code, with their lengths, D for the i-th string of the data.
P(name, n) == [s |-> <<name, 0>>, n |-> n]
D(name, i, n) == [s |-> <<name, i>>, n |-> n]

\* p[:k]
Slice(p, k) == [p EXCEPT !.n = IF @ > k THEN k ELSE @]

\* len(text)
RECURSIVE TextLen(_)
TextLen(text) == IF text = <<>> THEN 0 ELSE Head(text).n + TextLen(Tail(text))

\* text[:k]
RECURSIVE Take(_, _)
Take(text, k) ==
    IF text = <<>> \/ k = 0 THEN <<>>
    ELSE IF Head(text).n <= k
         THEN <<Head(text)>> \o Take(Tail(text), k - Head(text).n)
         ELSE <<Slice(Head(text), k)>>

Dots == P("...", 3)
NL == P("<nl>", 1)
NLNL == P("<nl><nl>", 2)

SumGroups == {D("tech", 0, 4)}
SumModels == {"None", "test-model"}     \* the model argument; "None" for None
default_model == "None"                 \* Summarizer(client=...) of main.py
SUMMARIZER_SYSTEM == "summarizer"
TRANSLATOR_SYSTEM == "translator"

\* The posts summarize_and_translate is given: a title of 60 characters with a
\* permalink, a title of 61 characters without one; no body, no comments.
\* blank says that selftext.strip() is empty.
SumPost ==
    { [title |-> D("title", 1, 60), subreddit |-> D("subreddit", 1, 4),
       score |-> D("score", 1, 3), selftext |-> D("selftext", 1, 0), blank |-> TRUE,
       comments |-> <<>>, permalink |-> D("permalink", 1, 20), url |-> D("url", 1, 15)],
      [title |-> D("title", 2, 61), subreddit |-> D("subreddit", 2, 4),
       score |-> D("score", 2, 3), selftext |-> D("selftext", 2, 0), blank |-> TRUE,
       comments |-> <<>>, permalink |-> D("permalink", 2, 0), url |-> D("url", 2, 15)] }
SumPostLists == UNION {[1..n -> SumPost] : n \in 0..MaxSumPosts}

Blocks == [type : {"text"}, text : {<<D("x", 0, 1)>>, <<D("y", 0, 1)>>}]
              \cup {[type |-> "tool_use", text |-> <<>>]}
Contents == UNION {[1..n -> Blocks] : n \in 0..MaxBlocks}

\* What messages.create raises: the two retried errors, the bad request, and
\* the other APIError subclasses (connection, authentication, ...).
ApiErrors == {"RateLimitError", "InternalServerError", "BadRequestError", "APIError"}
Retryable(e) == e \in {"RateLimitError", "InternalServerError"}

\* "a or b" on optional strings.
Or(a, b) == IF a # "None" THEN a ELSE b

\* str.upper() keeps the length.
upper(g) == [g EXCEPT !.s = <<"upper", g.s>>]

\* The message of line 77.
EmptyMessage(group) ==
    <<P("No posts found for group '", 26), group, P("' in the last 24 hours.", 23)>>

Capped_NoMarker(p, cap) == <<Slice(p, cap)>>

\* x[:cap], and "..." behind it when len(x) > cap (lines 167-169 and 177-179).
Capped(p, cap) == <<Slice(p, cap)>> \o (IF p.n > cap THEN <<Dots>> ELSE <<>>)

\* Lines 175-180, from the j-th comment on.
RECURSIVE CommentLines(_, _)
CommentLines(comments, j) ==
    IF j > Len(comments) THEN <<>>
    ELSE <<P("j. [", 4), comments[j].score, P(" points] ", 9)>>
             \o Capped(comments[j].body, COMMENT_CAP) \o <<NL>>
             \o CommentLines(comments, j + 1)

\* The section of post i (lines 162-180), for i and j of one digit.
Section(i, post) ==
    <<P("## Post i: ", 11), post.title, NL,
      P("**Subreddit:** r/", 17), post.subreddit, P(" | **Score:** ", 14), post.score,
      NLNL>>
    \o (IF post.selftext.n > 0 /\ ~post.blank
        THEN <<P("**Content:**<nl>", 13)>> \o Capped(post.selftext, SELFTEXT_CAP)
                 \o <<NLNL>>
        ELSE <<>>)
    \o (IF post.comments # <<>>
        THEN <<P("**Top Comments:**<nl>", 18)>> \o CommentLines(post.comments, 1)
        ELSE <<>>)

\* "\n---\n\n".join(sections) of line 184, from section i on.
RECURSIVE JoinSections(_, _)
JoinSections(posts, i) ==
    IF i > Len(posts) THEN <<>>
    ELSE (IF i > 1 THEN <<P("<nl>---<nl><nl>", 6)>> ELSE <<>>)
             \o Section(i, posts[i]) \o JoinSections(posts, i + 1)

TruncationMarker == P("<nl><nl>[Content truncated due to length]", 35)

TruncateContent_Never(content) == content

\* Lines 187-188.
TruncateContent(content) ==
    IF TextLen(content) > MAX_CONTENT_LENGTH
    THEN Take(content, MAX_CONTENT_LENGTH) \o <<TruncationMarker>>
    ELSE content

\* Lines 190-194.
PromptHeader(group) ==
    <<P("Summarize the following Reddit posts from the '", 47), upper(group),
      P("' news group. These are the top posts and comments from the last 24 hours:<nl><nl>",
        76)>>

\* _build_summary_prompt.
BuildSummaryPrompt(group, posts) ==
    PromptHeader(group) \o TruncateContent(JoinSections(posts, 1))

\* The prompt of line 115.
TranslatePrompt(text) ==
    <<P("Translate this news summary to Ukrainian:<nl><nl>", 43)>> \o text

\* Post.full_url.
full_url(post) ==
    IF post.permalink.n > 0 THEN <<P("https://reddit.com", 18), post.permalink>>
    ELSE <<post.url>>

SourceTitle_Whole(title) == <<title>>

\* Line 151.
SourceTitle(title) ==
    IF title.n > SOURCE_TITLE_CAP THEN <<Slice(title, SOURCE_TITLE_CAP), Dots>>
    ELSE <<title>>

\* The entries of lines 150-152.
RECURSIVE SourceEntries(_)
SourceEntries(posts) ==
    IF posts = <<>> THEN <<>>
    ELSE <<P("* ", 2)>> \o SourceTitle(Head(posts).title) \o <<P("<nl>  ", 3)>>
             \o full_url(Head(posts)) \o <<NLNL>> \o SourceEntries(Tail(posts))

\* The section of lines 146-153.
SourcesSection(posts) ==
    <<P("<nl><nl>=====<nl>", 43), P("SOURCES<nl>", 18), P("=====<nl><nl>", 42)>>
        \o SourceEntries(posts)

\* Lines 70-73: the text of the text blocks, in order.
RECURSIVE ConcatText(_)
ConcatText(content) ==
    IF content = <<>> THEN <<>>
    ELSE (IF Head(content).type = "text" THEN Head(content).text ELSE <<>>)
             \o ConcatText(Tail(content))

RetryDelay_Constant(attempt) == INITIAL_RETRY_DELAY

\* Lines 84 and 94.
RetryDelay(attempt) == INITIAL_RETRY_DELAY * (2 ^ attempt)

RaiseAfterRetries_Runtime(last_error) == "RuntimeError"

\* Lines 112-114.
RaiseAfterRetries(last_error) ==
    IF last_error # "None" THEN last_error ELSE "RuntimeError"

\* generate(prompt, system, model) is entered and sends its first API call.
StartGenerate(s, phase, system, prompt) ==
    /\ sm' = [s EXCEPT !.pc = "api", !.phase = phase, !.attempt = 0, !.ncalls = 1,
                       !.slept = <<>>, !.last_error = "None", !.napi = @ + 1]
    /\ genCalls' = Append(genCalls, [system |-> system, prompt |-> prompt,
                                     model |-> Or(s.model, default_model)])

\* summarize_and_translate returns (lines 145-155).
SumReturn(s, translation) ==
    /\ sm' = [s EXCEPT !.pc = "done", !.out = "returned",
                       !.text = IF s.posts # <<>>
                                THEN translation \o SourcesSection(s.posts)
                                ELSE translation]
    /\ UNCHANGED genCalls

\* summarize_and_translate is left by an exception of generate.
SumRaise(s, e) ==
    /\ sm' = [s EXCEPT !.pc = "done", !.out = "raised", !.err = e]
    /\ UNCHANGED genCalls

\* translate_to_ukrainian(summary) of line 143, up to its API call or its return.
Translate(s) ==
    IF s.summary = <<>>
    THEN SumReturn(s, <<>>)
    ELSE StartGenerate(s, "translate", TRANSLATOR_SYSTEM, TranslatePrompt(s.summary))

SumFrame == UNCHANGED <<rlVars, rqVars, fgpc, group_name, results, fgout, pb, pw, tcVars>>

SumInit == RLIdle /\ RQIdle /\ FGIdle /\ SumIdle /\ TCIdle

\* summarize_and_translate(group, posts, model) runs to its first suspension:
\* summarize returns the fixed message for no posts, or sends the summary request.
SummarizeAndTranslate(group, posts, model) ==
    /\ sm.pc = "idle"
    /\ LET s == [sm EXCEPT !.group = group, !.posts = posts, !.model = model] IN
          IF posts = <<>>
          THEN Translate([s EXCEPT !.summary = EmptyMessage(group)])
          ELSE StartGenerate(s, "summarize", SUMMARIZER_SYSTEM,
                             BuildSummaryPrompt(group, posts))
    /\ SumFrame

\* messages.create returns a response; generate returns its text (lines 67-80)
\* and the caller goes on.
ApiReturns(content) ==
    /\ sm.pc = "api"
    /\ LET text == ConcatText(content)
           s == [sm EXCEPT !.content = content, !.outcome = "ok", !.nret = @ + 1,
                           !.gentext = text]
       IN IF sm.phase = "summarize"
          THEN Translate([s EXCEPT !.summary = text])
          ELSE SumReturn(s, text)
    /\ SumFrame

\* messages.create raises (lines 82-108).
ApiRaises(e) ==
    /\ sm.pc = "api"
    /\ LET s == [sm EXCEPT !.outcome = e] IN
          IF Retryable(e)
          THEN /\ sm' = [s EXCEPT !.pc = "sleep", !.last_error = e,
                                  !.slept = Append(@, RetryDelay(s.attempt))]
               /\ UNCHANGED genCalls
          ELSE SumRaise(s, e)
    /\ SumFrame

\* asyncio.sleep(delay) returns: the next attempt, or lines 110-114.
GenSleepDone ==
    /\ sm.pc = "sleep"
    /\ IF sm.attempt + 1 < GEN_MAX_RETRIES
       THEN /\ sm' = [sm EXCEPT !.pc = "api", !.attempt = @ + 1, !.ncalls = @ + 1,
                                !.napi = @ + 1]
            /\ UNCHANGED genCalls
       ELSE SumRaise(sm, RaiseAfterRetries(sm.last_error))
    /\ SumFrame

SumNext ==
    \/ \E group \in SumGroups, posts \in SumPostLists, model \in SumModels :
          SummarizeAndTranslate(group, posts, model)
    \/ \E content \in Contents : ApiReturns(content)
    \/ \E e \in ApiErrors : ApiRaises(e)
    \/ GenSleepDone

SpecSum == SumInit /\ [][SumNext]_vars


\* ------------------------------------------------------------------------
\* Summarizer and generate properties
\* ------------------------------------------------------------------------

\* C16: summarize_and_translate on an empty post list makes no remote call, in
\* the summarization pass or in the translation pass, and returns the fixed
\* empty-group message.
C16_EmptyShortCircuit ==
    (sm.pc # "idle" /\ sm.posts = <<>>) =>
        /\ genCalls = <<>>
        /\ sm.napi = 0
        /\ sm.pc = "done"
        /\ sm.out = "returned"
        /\ sm.text = EmptyMessage(sm.group)

\* C17: one generate makes at most 3 API calls; a rate-limit or server error on
\* attempt k is followed by a sleep of 2 * 2^k seconds, and every later call by
\* such a sleep; a bad request is raised with no sleep after its call.
C17_RetryPolicy ==
    /\ sm.ncalls <= 3
    /\ \A k \in 1..Len(sm.slept) :
          sm.slept[k] = IF k = 1 THEN 2 ELSE IF k = 2 THEN 4 ELSE 8
    /\ sm.pc = "sleep" =>
          /\ sm.outcome \in {"RateLimitError", "InternalServerError"}
          /\ Len(sm.slept) = sm.ncalls
    /\ sm.pc = "api" => Len(sm.slept) = sm.ncalls - 1
    /\ (sm.pc = "done" /\ sm.outcome = "BadRequestError") =>
          /\ sm.out = "raised"
          /\ sm.err = "BadRequestError"
          /\ Len(sm.slept) = sm.ncalls - 1

\* Two retried errors, sleeps of 2 and 4 seconds, then a bad request on the
\* third call, raised at once.
C17_Witness ==
    /\ sm.pc = "done" /\ sm.err = "BadRequestError"
    /\ sm.ncalls = 3 /\ sm.slept = <<2, 4>>

\* The text blocks of a response, in order.
TextBlocks(content) == SelectSeq(content, LAMBDA b : b.type = "text")

\* C18: generate returns the texts of the text blocks in order, and never
\* returns a string for a response without a text block.
C18_NoTextIsError ==
    sm.nret > 0 =>
        /\ TextBlocks(sm.content) # <<>>
        /\ sm.gentext = ConcatText(TextBlocks(sm.content))

\* C19: a generate whose three attempts all failed with retried errors raises
\* the last of them; an error of generate leaves summarize_and_translate as that
\* error, and one raised in the summarization pass is followed by no translation
\* call and no text.
C19_FailurePropagates ==
    /\ (sm.pc = "done" /\ sm.outcome # "ok" /\ sm.outcome # "None") =>
          /\ sm.out = "raised"
          /\ sm.err = sm.outcome
          /\ sm.text = <<>>
    /\ (sm.pc = "done" /\ sm.out = "raised" /\ Retryable(sm.outcome)) =>
          /\ sm.ncalls = GEN_MAX_RETRIES
          /\ Len(sm.slept) = GEN_MAX_RETRIES
    /\ (sm.pc = "done" /\ sm.out = "raised" /\ sm.phase = "summarize") =>
          /\ Len(genCalls) = 1
          /\ genCalls[1].system = SUMMARIZER_SYSTEM
          /\ sm.nret = 0

\* The summarization pass ran out of attempts on a server error.
C19_Witness ==
    /\ sm.pc = "done" /\ sm.out = "raised" /\ sm.phase = "summarize"
    /\ sm.posts # <<>> /\ sm.ncalls = 3 /\ sm.err = "InternalServerError"

\* C20: a summarize_and_translate that returns for a non-empty post list has
\* called generate exactly twice: with the summarizer persona and the built
\* prompt, then with the translator persona and a prompt that ends with the
\* text the first call returned, both with the same model.
C20_TwoCallsInOrder ==
    (sm.pc = "done" /\ sm.out = "returned" /\ sm.posts # <<>>) =>
        /\ Len(genCalls) = 2
        /\ genCalls[1].system = SUMMARIZER_SYSTEM
        /\ genCalls[1].prompt = BuildSummaryPrompt(sm.group, sm.posts)
        /\ genCalls[2].system = TRANSLATOR_SYSTEM
        /\ genCalls[2].prompt = TranslatePrompt(sm.summary)
        /\ genCalls[1].model = genCalls[2].model

\* A piece-wise concatenation of a sequence of texts.
RECURSIVE ConcatAll(_)
ConcatAll(texts) == IF texts = <<>> THEN <<>> ELSE Head(texts) \o ConcatAll(Tail(texts))

\* C28: for a non-empty post list the returned text ends with the source-link
\* section: its three heading lines, then one entry per post in input order,
\* each the title (whole up to 60 characters, else its first 60 characters and
\* "...") and the canonical URL (https://reddit.com + permalink when the
\* permalink is non-empty, else the url).
C28_SourcesAppended ==
    (sm.pc = "done" /\ sm.out = "returned" /\ sm.posts # <<>>) =>
        LET entry(post) ==
                <<P("* ", 2)>>
                \o (IF post.title.n <= 60 THEN <<post.title>>
                    ELSE <<[s |-> post.title.s, n |-> 60], P("...", 3)>>)
                \o <<P("<nl>  ", 3)>>
                \o (IF post.permalink.n # 0
                    THEN <<P("https://reddit.com", 18), post.permalink>>
                    ELSE <<post.url>>)
                \o <<P("<nl><nl>", 2)>>
            section ==
                <<P("<nl><nl>=====<nl>", 43), P("SOURCES<nl>", 18), P("=====<nl><nl>", 42)>>
                \o ConcatAll([k \in 1..Len(sm.posts) |-> entry(sm.posts[k])])
        IN /\ Len(sm.text) >= Len(section)
           /\ SubSeq(sm.text, Len(sm.text) - Len(section) + 1, Len(sm.text)) = section
           /\ SubSeq(sm.text, 1, Len(sm.text) - Len(section)) = sm.gentext

\* Two posts, the first with a title over 60 characters and no permalink, the
\* second with a permalink, behind a translation that is not empty.
C28_Witness ==
    /\ sm.pc = "done" /\ sm.out = "returned" /\ Len(sm.posts) = 2
    /\ sm.posts[1].title.n > 60 /\ sm.posts[1].permalink.n = 0
    /\ sm.posts[2].title.n <= 60 /\ sm.posts[2].permalink.n > 0
    /\ sm.phase = "translate" /\ sm.gentext # <<>>


\* ------------------------------------------------------------------------
\* Summarizer._build_summary_prompt
\* ------------------------------------------------------------------------
MaxPromptPosts == 2             \* posts in one prompt

\* Group names of 4 and of 43 characters.
PromptGroups == {D("tech", 0, 4), D("group", 0, 43)}

\* The lengths that matter: a title that fills the content cap exactly when it
\* is the only text of the only post, and one character more; bodies and
\* comments at their caps and one over; bodies of white space only.
PostShapes ==
    { sh \in [title : {60, 99953, 99954}, body : {0, 1000, 1001}, blank : BOOLEAN,
              comments : {<<>>, <<501, 500>>}] :
        sh.body = 0 => sh.blank }

\* The i-th post of the list, of shape sh.
MkPost(i, sh) ==
    [title |-> D("title", i, sh.title), subreddit |-> D("subreddit", i, 1),
     score |-> D("score", i, 1), selftext |-> D("selftext", i, sh.body),
     blank |-> sh.blank,
     comments |-> [j \in 1..Len(sh.comments) |->
                      [body |-> D("comment", 10 * i + j, sh.comments[j]),
                       score |-> D("cscore", 10 * i + j, 1)]],
     permalink |-> D("permalink", i, 20), url |-> D("url", i, 15)]

PromptInit == RLIdle /\ RQIdle /\ FGIdle /\ SumIdle /\ TCIdle

\* _build_summary_prompt(group, posts), called by summarize with posts that are
\* not empty.
BuildPrompt(group, shapes) ==
    /\ pb.stage = "idle"
    /\ LET posts == [i \in 1..Len(shapes) |-> MkPost(i, shapes[i])] IN
          pb' = [stage |-> "built", group |-> group, posts |-> posts,
                 content |-> JoinSections(posts, 1),
                 prompt |-> BuildSummaryPrompt(group, posts)]
    /\ UNCHANGED <<rlVars, rqVars, fgpc, group_name, results, fgout, sm, genCalls, pw,
                   tcVars>>

\* One call is followed: the arguments are drawn while none has been made.
PromptNext ==
    /\ pb.stage = "idle"
    /\ \E group \in PromptGroups, n \in 1..MaxPromptPosts :
          \E shapes \in [1..n -> PostShapes] : BuildPrompt(group, shapes)

SpecPrompt == PromptInit /\ [][PromptNext]_vars

\* The positions of the prompt that hold text of the string x.
PositionsOf(x) == {k \in DOMAIN pb.prompt : pb.prompt[k].s = x.s}

\* The string x of at least one character stands in the prompt once, as its
\* first cap characters followed by "..." when it is longer than cap, whole and
\* without a "..." behind it otherwise.
CappedInPrompt(x, cap) ==
    /\ Cardinality(PositionsOf(x)) = 1
    /\ \A k \in PositionsOf(x) :
          IF x.n > cap
          THEN /\ pb.prompt[k].n = cap
               /\ k < Len(pb.prompt) /\ pb.prompt[k + 1] = P("...", 3)
          ELSE /\ pb.prompt[k].n = x.n
               /\ (k < Len(pb.prompt) => pb.prompt[k + 1] # P("...", 3))

\* The bodies and comment bodies of the posts of the prompt.
PromptBodies == {pb.posts[i].selftext : i \in DOMAIN pb.posts}
PromptComments ==
    UNION {{pb.posts[i].comments[j].body : j \in DOMAIN pb.posts[i].comments} :
              i \in DOMAIN pb.posts}

\* C26, as stated, for a prompt the global cap leaves whole: every body is in
\* the prompt, cut to 1000 characters and marked when longer, whole otherwise;
\* every comment likewise at 500.
C26_AsStated ==
    (pb.stage = "built" /\ TextLen(pb.content) <= 100000) =>
        /\ \A b \in PromptBodies : b.n > 0 => CappedInPrompt(b, 1000)
        /\ \A c \in PromptComments : CappedInPrompt(c, 500)

\* C26: while the joined sections are within the global cap, a body that is
\* not only white space is in the prompt once, as its first 1000 characters and
\* "..." when longer than 1000 and whole without marker otherwise; a body of
\* white space only, or an empty one, is not in the prompt at all; a comment is
\* in the prompt once, as its first 500 characters and "..." when longer than
\* 500 and whole without marker otherwise.
C26_CapsPerText ==
    (pb.stage = "built" /\ TextLen(pb.content) <= 100000) =>
        /\ \A i \in DOMAIN pb.posts :
              LET b == pb.posts[i].selftext IN
                 IF b.n > 0 /\ ~pb.posts[i].blank
                 THEN CappedInPrompt(b, 1000)
                 ELSE PositionsOf(b) = {}
        /\ \A c \in PromptComments : CappedInPrompt(c, 500)

\* A body of 1001 characters and a comment of 501 next to a body of white
\* space, in a prompt that is not cut.
C26_Witness ==
    /\ pb.stage = "built" /\ TextLen(pb.content) <= 100000
    /\ Len(pb.posts) = 2
    /\ pb.posts[1].selftext.n = 1001 /\ ~pb.posts[1].blank
    /\ Len(pb.posts[1].comments) = 2
    /\ pb.posts[2].selftext.n = 1000 /\ pb.posts[2].blank

\* a is the first TextLen(a) characters of c.
IsPrefixText(a, c) ==
    /\ Len(a) <= Len(c)
    /\ \A k \in 1..Len(a) :
          /\ a[k].s = c[k].s
          /\ IF k < Len(a) THEN a[k].n = c[k].n ELSE a[k].n <= c[k].n

\* C27: joined sections of more than 100000 characters are in the prompt as
\* their first 100000 characters followed by the truncation marker, and the
\* prompt of a group name of at most 42 characters has at most 100200
\* characters; joined sections of at most 100000 characters are in the prompt
\* whole, with no marker.
C27_GlobalCap ==
    pb.stage = "built" =>
        LET h == Len(PromptHeader(pb.group))
            body == SubSeq(pb.prompt, h + 1, Len(pb.prompt))
            marker == P("<nl><nl>[Content truncated due to length]", 35)
        IN /\ SubSeq(pb.prompt, 1, h) = PromptHeader(pb.group)
           /\ IF TextLen(pb.content) > 100000
              THEN /\ body # <<>> /\ body[Len(body)] = marker
                   /\ TextLen(SubSeq(body, 1, Len(body) - 1)) = 100000
                   /\ IsPrefixText(SubSeq(body, 1, Len(body) - 1), pb.content)
                   /\ pb.group.n <= 42 => TextLen(pb.prompt) <= 100000 + 200
              ELSE /\ body = pb.content
                   /\ \A k \in DOMAIN pb.prompt : pb.prompt[k] # marker

\* Content of 100001 characters, one over the cap, has been cut.
C27_Witness ==
    /\ pb.stage = "built"
    /\ TextLen(pb.content) = 100001
    /\ TextLen(pb.prompt) = TextLen(PromptHeader(pb.group)) + 100035


\* ------------------------------------------------------------------------
\* RedditClient.fetch_posts_with_comments
\* ------------------------------------------------------------------------
MaxPWPosts == 2                 \* posts in the listing of the source
MaxPWComments == 2              \* comments one fetch_post_comments returns

PWPostIds == {"p1", "p2", "p3"}

\* What fetch_top_posts returns: posts without comments, no post twice.
PWListings ==
    { l \in UNION {[1..n -> PWPostIds] : n \in 0..MaxPWPosts} :
        \A i, j \in DOMAIN l : i # j => l[i] # l[j] }

\* What fetch_post_comments(post) returns: comments of that post.
PWComments(post) ==
    { [k \in 1..n |-> [post |-> post, k |-> k]] : n \in 0..MaxPWComments }

\* What can end a fetch inside _request.
PWErrors == {"RedditClientError", "RateLimitExceededError", "TransportError",
             "HTTPStatusError"}

\* The errors fetch_top_posts and fetch_post_comments turn into an empty list.
PWCaught(e) == FetchBoundary(NewRequest, e).out = "returned"

PWFrame ==
    UNCHANGED <<rlVars, rqVars, fgpc, group_name, results, fgout, sm, genCalls, pb, tcVars>>

PWInit == RLIdle /\ RQIdle /\ FGIdle /\ SumIdle /\ TCIdle

\* fetch_posts_with_comments is called and awaits fetch_top_posts (line 300).
PWCall ==
    /\ pw.pc = "idle"
    /\ pw' = [pw EXCEPT !.pc = "posts"]
    /\ PWFrame

\* fetch_top_posts returns the listing, which is empty after an error it caught;
\* lines 303-308 start one fetch_comments_for_post task per post and await the
\* gather. Post.comments starts as the empty list.
PWPostsReturn(listing) ==
    /\ pw.pc = "posts"
    /\ pw' = [pw EXCEPT !.pc = "gather", !.listing = listing,
                        !.posts = [i \in DOMAIN listing |->
                                      [id |-> listing[i], comments |-> <<>>]],
                        !.tasks = [i \in DOMAIN listing |->
                                      [state |-> "running", got |-> <<>>, err |-> "none"]]]
    /\ PWFrame

\* fetch_top_posts raises an error it does not catch, which leaves
\* fetch_posts_with_comments.
PWPostsRaise(e) ==
    /\ pw.pc = "posts"
    /\ ~PWCaught(e)
    /\ pw' = [pw EXCEPT !.pc = "done", !.out = "raised", !.err = e]
    /\ PWFrame

\* The task of post i: fetch_post_comments returns and line 304 sets
\* post.comments. The tasks of a gather that has raised run on.
PWCommentsReturn(i, comments) ==
    /\ pw.pc \in {"gather", "done"}
    /\ i \in DOMAIN pw.tasks
    /\ pw.tasks[i].state = "running"
    /\ pw' = [pw EXCEPT !.tasks[i] = [@ EXCEPT !.state = "ok", !.got = comments],
                        !.posts[i] = [@ EXCEPT !.comments = comments]]
    /\ PWFrame

\* The task of post i: fetch_post_comments ends with error e. An error it
\* catches makes it return the empty list; any other leaves the task, and
\* gather, which has no return_exceptions, raises it to line 307.
PWCommentsFail(i, e) ==
    /\ pw.pc \in {"gather", "done"}
    /\ i \in DOMAIN pw.tasks
    /\ pw.tasks[i].state = "running"
    /\ IF PWCaught(e)
       THEN pw' = [pw EXCEPT !.tasks[i] = [@ EXCEPT !.state = "failed", !.err = e],
                             !.posts[i] = [@ EXCEPT !.comments = <<>>]]
       ELSE pw' = [pw EXCEPT !.tasks[i] = [@ EXCEPT !.state = "raised", !.err = e],
                             !.pc = "done",
                             !.out = IF pw.pc = "gather" THEN "raised" ELSE @,
                             !.err = IF pw.pc = "gather" THEN e ELSE @]
    /\ PWFrame

\* Every task has returned: gather returns and line 309 returns the posts.
PWReturn ==
    /\ pw.pc = "gather"
    /\ \A i \in DOMAIN pw.tasks : pw.tasks[i].state \in {"ok", "failed"}
    /\ pw' = [pw EXCEPT !.pc = "done", !.out = "returned"]
    /\ PWFrame

PWNext ==
    \/ PWCall
    \/ \E listing \in PWListings : PWPostsReturn(listing)
    \/ \E e \in PWErrors : PWPostsRaise(e)
    \/ \E i \in DOMAIN pw.tasks : \E comments \in PWComments(pw.listing[i]) :
          PWCommentsReturn(i, comments)
    \/ \E i \in DOMAIN pw.tasks : \E e \in PWErrors : PWCommentsFail(i, e)
    \/ PWReturn

SpecPWC == PWInit /\ [][PWNext]_vars

\* C40: no comment fetch is started before the listing is there; a call whose
\* listing was fetched ends by returning, whatever the comment fetches ended
\* with; and it returns the posts of the listing in listing order, each with
\* the comments its own fetch returned, or with none when that fetch failed.
C40_CommentFailuresIsolated ==
    /\ pw.pc \in {"idle", "posts"} => pw.tasks = <<>>
    /\ (pw.pc = "done" /\ pw.tasks # <<>>) => pw.out = "returned"
    /\ (pw.pc = "done" /\ pw.out = "returned") =>
          /\ Len(pw.posts) = Len(pw.listing)
          /\ \A i \in DOMAIN pw.posts :
                /\ pw.posts[i].id = pw.listing[i]
                /\ pw.posts[i].comments =
                      (IF pw.tasks[i].state = "ok" THEN pw.tasks[i].got ELSE <<>>)
                /\ \A k \in DOMAIN pw.posts[i].comments :
                      pw.posts[i].comments[k].post = pw.posts[i].id


\* ------------------------------------------------------------------------
\* TokenCache.get / set / clear, step by step
\* ------------------------------------------------------------------------
MaxTCOps == 3                   \* get / set / clear calls in one run
TCTickStep == 1                 \* granularity of the clock, seconds
MaxClock == 2                   \* the clock stops here

\* expires_in arguments of set(): around the expiry buffer.
TCExpiresIn == {299, 300, 301}

\* What the file may hold when the cache is built: nothing, a token left by an
\* earlier run (inside the buffer at time 0, or valid until time 2), or
\* content no set() has written.
InitialFiles ==
    {NoFileTC}
    \cup {[exists |-> TRUE, content |-> Malformed(k)] :
             k \in {"garbage", "no_access_token", "no_expires_at", "not_object"}}
    \cup {[exists |-> TRUE,
           content |-> [kind |-> "token", access_token |-> 9, expires_at |-> e]] :
             e \in {300, 302}}

TCLockFree_NoLock(h) == TRUE

\* "async with self._lock" of get and set enters when no task is inside.
TCLockFree(h) == h = NoTask

\* What json.loads and the two subscripts of lines 46-50 raise on content c.
ParseError(c) ==
    CASE c.kind \in {"garbage", "empty"} -> "JSONDecodeError"
      [] c.kind \in {"no_access_token", "no_expires_at"} -> "KeyError"
      [] c.kind = "not_object" -> "TypeError"
      [] OTHER -> "None"

Caught_JSONOnly(e) == e = "JSONDecodeError"

\* except (json.JSONDecodeError, KeyError) of line 62.
Caught(e) == e \in {"JSONDecodeError", "KeyError"}

ClearResult_Unguarded(f) == [file |-> NoFileTC, raised |-> ~f.exists]

\* clear(): "if self.path.exists(): self.path.unlink()".
ClearResult(f) == [file |-> NoFileTC, raised |-> FALSE]

\* The call of task t returns or raises.
TCReturn(t, res) ==
    tc' = [tc EXCEPT ![t] = [@ EXCEPT !.pc = "idle", !.res = res]]

\* What a get records when it takes the lock.
GetSnapshot ==
    [NoResult EXCEPT !.lastSet = lastSet, !.nclears = nclears, !.lastMut = lastMut,
                     !.sawFile = file.exists]

TCFrame == UNCHANGED <<rlVars, rqVars, svcVars>>

TCInit ==
    /\ RLIdle /\ RQIdle /\ FGIdle /\ SumIdle
    /\ clock = 0
    /\ file \in InitialFiles
    /\ cacheLock = NoTask
    /\ tc = [t \in TCTasks |-> NewCall]
    /\ tcOps = 0
    /\ lastSet = NoSet
    /\ nclears = 0
    /\ written = {}
    /\ lastMut = "none"

\* time.time() advances.
TCTick ==
    /\ clock + TCTickStep <= MaxClock
    /\ clock' = clock + TCTickStep
    /\ UNCHANGED <<file, cacheLock, tc, tcOps, lastSet, nclears, written, lastMut>>
    /\ TCFrame

\* A task calls get().
TCCallGet(t) ==
    /\ tc[t].pc = "idle"
    /\ tcOps < MaxTCOps
    /\ tcOps' = tcOps + 1
    /\ tc' = [tc EXCEPT ![t] = [NewCall EXCEPT !.pc = "g_lock", !.op = "get"]]
    /\ UNCHANGED <<clock, file, cacheLock, lastSet, nclears, written, lastMut>>
    /\ TCFrame

\* get takes the lock and tests path.exists() (lines 39-42): it returns None, or
\* goes on to open the file.
GetEnter(t) ==
    /\ tc[t].pc = "g_lock"
    /\ TCLockFree(cacheLock)
    /\ IF ~file.exists
       THEN /\ TCReturn(t, [GetSnapshot EXCEPT !.kind = "absent", !.at = clock])
            /\ UNCHANGED cacheLock
       ELSE /\ tc' = [tc EXCEPT ![t] = [@ EXCEPT !.pc = "g_open", !.res = GetSnapshot]]
            /\ cacheLock' = t
    /\ UNCHANGED <<clock, file, tcOps, lastSet, nclears, written, lastMut>>
    /\ TCFrame

\* aiofiles.open(self.path) of line 45: FileNotFoundError, which nothing catches,
\* when the file is gone.
GetOpen(t) ==
    /\ tc[t].pc = "g_open"
    /\ IF ~file.exists
       THEN /\ TCReturn(t, [tc[t].res EXCEPT !.kind = "raised", !.nclears = nclears,
                                             !.err = "FileNotFoundError", !.at = clock])
            /\ cacheLock' = NoTask
       ELSE /\ tc' = [tc EXCEPT ![t] = [@ EXCEPT !.pc = "g_read", !.detached = FALSE]]
            /\ UNCHANGED cacheLock
    /\ UNCHANGED <<clock, file, tcOps, lastSet, nclears, written, lastMut>>
    /\ TCFrame

\* f.read() returns; lines 46-64 parse the content, test is_valid and return.
GetRead(t) ==
    /\ tc[t].pc = "g_read"
    /\ LET c == IF tc[t].detached THEN tc[t].inode ELSE file.content
           e == ParseError(c)
           r == [tc[t].res EXCEPT !.read = c, !.at = clock, !.nclears = nclears]
       IN TCReturn(t,
             IF e = "None"
             THEN IF is_valid(c, clock)
                  THEN [r EXCEPT !.kind = "token", !.token = c.access_token]
                  ELSE [r EXCEPT !.kind = "absent"]
             ELSE IF Caught(e)
                  THEN [r EXCEPT !.kind = "absent"]
                  ELSE [r EXCEPT !.kind = "raised", !.err = e])
    /\ cacheLock' = NoTask
    /\ UNCHANGED <<clock, file, tcOps, lastSet, nclears, written, lastMut>>
    /\ TCFrame

\* A task calls set(access_token, expires_in).
TCCallSet(t, e) ==
    /\ tc[t].pc = "idle"
    /\ tcOps < MaxTCOps
    /\ tcOps' = tcOps + 1
    /\ tc' = [tc EXCEPT ![t] = [NewCall EXCEPT !.pc = "s_lock", !.op = "set",
                                               !.access_token = tcOps + 1,
                                               !.expires_in = e]]
    /\ UNCHANGED <<clock, file, cacheLock, lastSet, nclears, written, lastMut>>
    /\ TCFrame

\* set takes the lock and builds the CachedToken (lines 68-72).
SetEnter(t) ==
    /\ tc[t].pc = "s_lock"
    /\ TCLockFree(cacheLock)
    /\ cacheLock' = t
    /\ LET cached == TokenContent(CacheSet(tc[t].access_token, tc[t].expires_in, clock))
       IN /\ tc' = [tc EXCEPT ![t] = [@ EXCEPT !.pc = "s_open", !.cached = cached,
                                               !.res = [NoResult EXCEPT !.at = clock]]]
          /\ written' = written \cup {cached}
    /\ UNCHANGED <<clock, file, tcOps, lastSet, nclears, lastMut>>
    /\ TCFrame

\* aiofiles.open(self.path, mode="w") of line 75 creates or truncates the file.
SetOpen(t) ==
    /\ tc[t].pc = "s_open"
    /\ file' = [exists |-> TRUE, content |-> Malformed("empty")]
    /\ lastMut' = "set"
    /\ tc' = [tc EXCEPT ![t] = [@ EXCEPT !.pc = "s_write", !.detached = FALSE,
                                         !.res = [@ EXCEPT !.nclears = nclears]]]
    /\ UNCHANGED <<clock, cacheLock, tcOps, lastSet, nclears, written>>
    /\ TCFrame

\* f.write of line 76, the close of the file and the release of the lock. The
\* write goes to the file that was opened, which a clear() may have unlinked.
SetWrite(t) ==
    /\ tc[t].pc = "s_write"
    /\ file' = IF tc[t].detached THEN file
               ELSE [exists |-> TRUE, content |-> tc[t].cached]
    /\ cacheLock' = NoTask
    /\ lastSet' = [n |-> lastSet.n + 1, access_token |-> tc[t].access_token,
                   at |-> tc[t].res.at, expires_in |-> tc[t].expires_in,
                   nclears |-> tc[t].res.nclears]
    /\ TCReturn(t, [tc[t].res EXCEPT !.kind = "returned"])
    /\ UNCHANGED <<clock, tcOps, nclears, written, lastMut>>
    /\ TCFrame

\* A task calls clear(), which runs to its end without suspending and takes no
\* lock (lines 81-85). The tasks that have the file open keep the unlinked file.
TCClear(t) ==
    /\ tc[t].pc = "idle"
    /\ tcOps < MaxTCOps
    /\ tcOps' = tcOps + 1
    /\ nclears' = nclears + 1
    /\ lastMut' = "clear"
    /\ file' = ClearResult(file).file
    /\ tc' = [u \in TCTasks |->
                IF u = t
                THEN [NewCall EXCEPT !.op = "clear",
                         !.res = [NoResult EXCEPT
                                     !.kind = IF ClearResult(file).raised
                                              THEN "raised" ELSE "returned",
                                     !.read = file.content, !.at = clock]]
                ELSE IF tc[u].pc \in {"g_read", "s_write"} /\ ~tc[u].detached
                     THEN [tc[u] EXCEPT !.detached = TRUE, !.inode = file.content]
                     ELSE tc[u]]
    /\ UNCHANGED <<clock, cacheLock, lastSet, written>>
    /\ TCFrame

TCNext ==
    \/ TCTick
    \/ \E t \in TCTasks : TCCallGet(t)
    \/ \E t \in TCTasks : GetEnter(t)
    \/ \E t \in TCTasks : GetOpen(t)
    \/ \E t \in TCTasks : GetRead(t)
    \/ \E t \in TCTasks, e \in TCExpiresIn : TCCallSet(t, e)
    \/ \E t \in TCTasks : SetEnter(t)
    \/ \E t \in TCTasks : SetOpen(t)
    \/ \E t \in TCTasks : SetWrite(t)
    \/ \E t \in TCTasks : TCClear(t)

SpecTC == TCInit /\ [][TCNext]_vars


\* ------------------------------------------------------------------------
\* TokenCache properties
\* ------------------------------------------------------------------------

\* The get() calls that have ended.
GetsDone == {t \in TCTasks : tc[t].op = "get" /\ tc[t].pc = "idle"}

\* C21: get returns None, and raises nothing, when the file does not exist, when
\* its content is not JSON, when one of the two fields is missing, and when
\* the token read is expired or inside the buffer; it returns a token only
\* when it read that token and the token is valid.
C21_GetAbsent ==
    \A t \in GetsDone :
        LET r == tc[t].res IN
        /\ ~r.sawFile => r.kind = "absent"
        /\ r.read.kind \in {"garbage", "empty", "no_access_token", "no_expires_at"}
              => r.kind = "absent"
        /\ (r.read.kind = "token" /\ r.at >= r.read.expires_at - 300)
              => r.kind = "absent"
        /\ r.kind = "token" =>
              /\ r.read.kind = "token"
              /\ r.token = r.read.access_token
              /\ r.at < r.read.expires_at - 300

\* A get read a JSON object without expires_at and returned None.
C21_Witness ==
    \E t \in GetsDone :
        tc[t].res.read.kind = "no_expires_at" /\ tc[t].res.kind = "absent"

\* C22: set replaces the content of the file by its own token with expires_at =
\* now + expires_in: while no clear() interferes, the file holds exactly the
\* token of the most recent set, and a get returns it when it is still valid.
C22_LastWriterWins ==
    /\ (cacheLock = NoTask /\ lastSet.n >= 1 /\ nclears = lastSet.nclears) =>
          file = [exists |-> TRUE,
                  content |-> [kind |-> "token", access_token |-> lastSet.access_token,
                               expires_at |-> lastSet.at + lastSet.expires_in]]
    /\ \A t \in GetsDone :
          LET r == tc[t].res IN
          (r.lastSet.n >= 1 /\ r.nclears = r.lastSet.nclears) =>
              /\ r.read = [kind |-> "token", access_token |-> r.lastSet.access_token,
                           expires_at |-> r.lastSet.at + r.lastSet.expires_in]
              /\ r.at < r.lastSet.at + r.lastSet.expires_in - 300 =>
                    (r.kind = "token" /\ r.token = r.lastSet.access_token)

\* Two sets, the second one second later, then a get that returns the second token.
C22_Witness ==
    \E t \in GetsDone :
        /\ tc[t].res.lastSet.n = 2 /\ tc[t].res.lastSet.at = 1
        /\ tc[t].res.kind = "token" /\ tc[t].res.token = tc[t].res.lastSet.access_token

\* C23: clear never raises and leaves no file, a clear on a missing file changes
\* nothing, and a get that follows a clear with no set in between returns None.
C23_ClearIdempotent ==
    /\ [](\A t \in TCTasks : tc[t].op = "clear" => tc[t].res.kind = "returned")
    /\ [][nclears' # nclears => (~file'.exists /\ (~file.exists => file' = file))]_vars
    /\ [](\A t \in GetsDone :
             tc[t].res.lastMut = "clear" =>
                 (tc[t].res.kind = "absent" /\ ~tc[t].res.sawFile))

\* clear, clear again, then a get that finds nothing.
C23_Witness ==
    \E t \in GetsDone :
        /\ tc[t].res.lastMut = "clear" /\ tc[t].res.nclears = 2
        /\ tc[t].res.kind = "absent"

\* C24: is_valid is true exactly when now < expires_at - 300: a token read with
\* expires_at = now + 299 or now + 300 is not returned, one with now + 301 is.
C24_IsValidBoundary ==
    \A t \in GetsDone :
        LET r == tc[t].res IN
        r.read.kind = "token" =>
            /\ (r.kind = "token") <=> (r.at < r.read.expires_at - 300)
            /\ r.read.expires_at = r.at + 299 => r.kind = "absent"
            /\ r.read.expires_at = r.at + 300 => r.kind = "absent"
            /\ r.read.expires_at = r.at + 301 => r.kind = "token"

\* A get read a token that expires exactly 300 seconds later: not returned.
C24_Witness ==
    \E t \in GetsDone :
        /\ tc[t].res.read.kind = "token"
        /\ tc[t].res.read.expires_at = tc[t].res.at + 300
        /\ tc[t].res.kind = "absent"

\* C25: with set and get calls only, in any interleaving: once a set has
\* returned and no call is inside the lock the file holds one of the written
\* tokens, whole; no get reads a file that is partly written; and a get after a
\* set returns the token it read when that token is valid.
C25_NoTornWrite ==
    nclears = 0 =>
        /\ (cacheLock = NoTask /\ lastSet.n >= 1) =>
              (file.exists /\ file.content \in written)
        /\ \A t \in GetsDone :
              LET r == tc[t].res IN
              /\ r.read.kind # "empty"
              /\ r.lastSet.n >= 1 =>
                    /\ r.read \in written
                    /\ r.at < r.read.expires_at - 300 =>
                          (r.kind = "token" /\ r.token = r.read.access_token)

\* One task is writing the file while the other waits at the lock of get, after
\* an earlier set.
C25_Witness ==
    /\ nclears = 0 /\ lastSet.n >= 1
    /\ \E u, v \in TCTasks : tc[u].pc = "s_write" /\ tc[v].pc = "g_lock"

\* C34: no clear() runs while a task is inside the lock of get or set, and the
\* file changes only while the lock is held.
C34_AllSerialized ==
    /\ [][nclears' # nclears => cacheLock = NoTask]_vars
    /\ [][file' # file => cacheLock # NoTask]_vars

\* C36: a get() over a file that is absent or holds a JSON object ends by
\* returning, None or a token, under every interleaving with set and clear.
C36_GetNeverRaises ==
    \A t \in GetsDone :
        tc[t].res.kind \in {"absent", "token"} \/ tc[t].res.err = "TypeError"

====
